---- MODULE Spec2Model ----
(***************************************************************************)
(* Drift analysis of Cloud SQL instances and database schemas against      *)
(* declarative baselines (jessequinn/drift-analysis-cli).                  *)
(*                                                                         *)
(* The specifications of the module:                                       *)
(*   Spec         the multi-baseline matcher and the analyzer's reports    *)
(*   SpecCompare  the field drift comparator (Analyzer.analyzeInstance)    *)
(*   SpecSchema   the schema validator (ValidateSchemaAgainstBaseline)     *)
(*   SpecLabels   the label matcher (matchesLabels)                        *)
(*   SpecGKE      the GKE master version comparison (compareVersion)       *)
(*   SpecReport   the report aggregator (DriftReport.FormatText)           *)
(*   SpecBatch    the discovery and the inspection of all connections      *)
(*   SpecInspect  one InspectDatabase call with its tunnel or proxy        *)
(***************************************************************************)
EXTENDS Integers, Sequences, FiniteSets, TLC

VARIABLES
    allInstances,   \* []*DatabaseInstance returned by DiscoverInstances
    baselines,      \* []SQLBaseline of the configuration file
    op,             \* the entry point that ran last ("none" before any)
    reports,        \* the DriftReports the entry point produced, in order
    evals,          \* every analyzeInstance call it made: instance key and baseline index
    lastReport,     \* Analyzer.lastReport of the analyzer it used (Nil when unset)
    actualY,        \* the observed instance, as the values extractConfig reads
    baselineY,      \* the baseline of one comparison, as the keys its YAML sets
    drift,          \* the InstanceDrift analyzeInstance returned (NoDrift before)
    schema,         \* *DatabaseSchema under validation
    schemaBaseline, \* *SchemaBaseline under validation
    result,         \* *SchemaValidationResult returned (Nil before)
    labelsIn,       \* the Labels of the instance handed to matchesLabels
    filterIn,       \* the label filter handed to matchesLabels
    matched,        \* what matchesLabels returned (NoMatchYet before)
    clusterActual,  \* *ClusterConfig of the observed GKE cluster
    clusterBaseline,\* *ClusterConfig of the GKE baseline
    clusterDrift,   \* the ClusterDrift a cluster comparison filled (NoDrift before)
    validationText, \* what FormatValidationResult returned for result (NotRun before)
    driftReport,    \* the *DriftReport handed to FormatText
    reportText,     \* what DriftReport.FormatText returned (NotRun before)
    projectList,    \* the projects of a discovery, each with what listing it returns
    discovery,      \* what Analyzer.DiscoverInstances returned (NotRun before)
    connections,    \* the database connections of a batch, each with how it fares
    inspection,     \* what inspectAllConnections did (NotRun before)
    inspector,      \* the DatabaseInspector of one InspectDatabase call
    processes,      \* the child processes spawned and not yet killed or exited
    inspected       \* what InspectDatabase returned (NotRun before)

vars == <<allInstances, baselines, op, reports, evals, lastReport,
          actualY, baselineY, drift, schema, schemaBaseline, result,
          labelsIn, filterIn, matched,
          clusterActual, clusterBaseline, clusterDrift, validationText,
          driftReport, reportText, projectList, discovery, connections,
          inspection, inspector, processes, inspected>>

matchVars   == <<allInstances, baselines, op, reports, evals, lastReport>>
compareVars == <<actualY, baselineY, drift>>
schemaVars  == <<schema, schemaBaseline, result, validationText>>
labelVars   == <<labelsIn, filterIn, matched>>
gkeVars     == <<clusterActual, clusterBaseline, clusterDrift>>
auxVars     == <<driftReport, reportText, projectList, discovery, connections,
                 inspection, inspector, processes, inspected>>

----------------------------------------------------------------------------
(* Generic helpers: Go maps as functions, slices as sequences.             *)

EmptyMap == [k \in {} |-> ""]

Range(s) == {s[i] : i \in 1..Len(s)}

\* every order in which Go's randomized map iteration can visit the keys S
Perms(S) == {s \in [1..Cardinality(S) -> S] : Range(s) = S}

PartialMaps(K, V) == UNION {[S -> V] : S \in SUBSET K}

MapSet(f, k, v) == [x \in DOMAIN f \cup {k} |-> IF x = k THEN v ELSE f[x]]

MapGet(f, k, zero) == IF k \in DOMAIN f THEN f[k] ELSE zero

\* fmt.Sprintf("%v", b) of a bool
FmtBool(b) == IF b THEN "true" ELSE "false"

\* fmt.Sprintf("%d", n) over the integers the model uses
FmtInt(n) == CASE n = 0 -> "0" [] n = 1 -> "1" [] n = 2 -> "2" [] n = 3 -> "3"
               [] n = 4 -> "4" [] n = 5 -> "5" [] n = 6 -> "6" [] n = 7 -> "7"
               [] OTHER -> "many"

DigitChars == <<"0", "1", "2", "3", "4", "5", "6", "7", "8", "9">>

\* the decimal digits of a natural number, as characters
RECURSIVE DecimalDigits(_)
DecimalDigits(n) ==
    IF n < 10 THEN <<DigitChars[n + 1]>>
    ELSE Append(DecimalDigits(n \div 10), DigitChars[(n % 10) + 1])

\* fmt.Sprintf("%d", n), as characters
FmtD(n) == IF n < 0 THEN <<"-">> \o DecimalDigits(-n) ELSE DecimalDigits(n)

\* fmt.Sprintf("%+d", n), as characters: the sign is always printed
FmtPlusD(n) == IF n < 0 THEN <<"-">> \o DecimalDigits(-n) ELSE <<"+">> \o DecimalDigits(n)

\* fmt.Sprintf("%v", list) of a []string, as its tokens
FmtList(l) == <<"[">> \o l \o <<"]">>

----------------------------------------------------------------------------
(* Records of the sql package.  A nil pointer is Nil; a record reached     *)
(* through a pointer carries isNil |-> FALSE.                              *)

Nil == [isNil |-> TRUE]

\* A DatabaseConfig as yaml.Unmarshal fills it from the keys y sets (and as
\* extractConfig fills it for an observed instance): a key that is absent
\* leaves the Go zero value, "" / 0 / false / nil.
DecodeConfig(y) ==
    [isNil             |-> FALSE,
     DatabaseVersion   |-> MapGet(y, "database_version", ""),
     Tier              |-> MapGet(y, "tier", ""),
     DatabaseFlags     |-> MapGet(y, "database_flags", EmptyMap),
     DiskSize          |-> MapGet(y, "disk_size_gb", 0),
     DiskType          |-> MapGet(y, "disk_type", ""),
     DiskAutoresize    |-> MapGet(y, "disk_autoresize", FALSE),
     RequiredDatabases |-> MapGet(y, "required_databases", <<>>),
     Settings          |->
        IF "settings" \notin DOMAIN y THEN Nil
        ELSE [isNil                       |-> FALSE,
              AvailabilityType            |-> MapGet(y, "settings.availability_type", ""),
              BackupEnabled               |-> MapGet(y, "settings.backup_enabled", FALSE),
              BackupStartTime             |-> MapGet(y, "settings.backup_start_time", ""),
              BackupRetentionDays         |-> MapGet(y, "settings.backup_retention_days", 0),
              PointInTimeRecovery         |-> MapGet(y, "settings.point_in_time_recovery", FALSE),
              TransactionLogRetentionDays |-> MapGet(y, "settings.transaction_log_retention_days", 0),
              PricingPlan                 |-> MapGet(y, "settings.pricing_plan", ""),
              ReplicationType             |-> MapGet(y, "settings.replication_type", ""),
              IPConfiguration             |->
                 IF "settings.ip_configuration" \notin DOMAIN y THEN Nil
                 ELSE [isNil              |-> FALSE,
                       IPv4Enabled        |-> MapGet(y, "settings.ip_configuration.ipv4_enabled", FALSE),
                       RequireSSL         |-> MapGet(y, "settings.ip_configuration.require_ssl", FALSE),
                       AuthorizedNetworks |-> MapGet(y, "settings.ip_configuration.authorized_networks", <<>>)],
              InsightsConfig              |->
                 IF "settings.insights_config" \notin DOMAIN y THEN Nil
                 ELSE [isNil                |-> FALSE,
                       QueryInsightsEnabled |-> MapGet(y, "settings.insights_config.query_insights_enabled", FALSE),
                       QueryPlansPerMinute  |-> MapGet(y, "settings.insights_config.query_plans_per_minute", 0),
                       QueryStringLength    |-> MapGet(y, "settings.insights_config.query_string_length", 0)]]]

\* report.Drift
Drift(field, expected, actual, severity) ==
    [Field |-> field, Expected |-> expected, Actual |-> actual, Severity |-> severity]

\* the drift a guarded comparison appends, or nothing
DriftIf(cond, field, expected, actual, severity) ==
    IF cond THEN <<Drift(field, expected, actual, severity)>> ELSE <<>>

\* fmt.Sprintf("database_flags.%s", key)
FlagField(key) == <<"database_flags", key>>

\* compareDatabaseFlags without its second loop, over the instance's flags
compareDatabaseFlagsNoExtra(config, baseline, ordB, ordA) ==
    LET driftedB == SelectSeq(ordB, LAMBDA k :
                        \/ k \notin DOMAIN config.DatabaseFlags
                        \/ config.DatabaseFlags[k] # baseline.DatabaseFlags[k])
    IN  [i \in 1..Len(driftedB) |->
            IF driftedB[i] \notin DOMAIN config.DatabaseFlags
            THEN Drift(FlagField(driftedB[i]), <<baseline.DatabaseFlags[driftedB[i]]>>,
                       <<"not set">>, "medium")
            ELSE Drift(FlagField(driftedB[i]), <<baseline.DatabaseFlags[driftedB[i]]>>,
                       <<config.DatabaseFlags[driftedB[i]]>>, "medium")]

\* compareDatabaseFlags; ordB and ordA are the orders in which the two range
\* loops visit the baseline's and the instance's flags
compareDatabaseFlags(config, baseline, ordB, ordA) ==
    LET driftedB == SelectSeq(ordB, LAMBDA k :
                        \/ k \notin DOMAIN config.DatabaseFlags
                        \/ config.DatabaseFlags[k] # baseline.DatabaseFlags[k])
        extraA   == SelectSeq(ordA, LAMBDA k : k \notin DOMAIN baseline.DatabaseFlags)
    IN  [i \in 1..Len(driftedB) |->
            IF driftedB[i] \notin DOMAIN config.DatabaseFlags
            THEN Drift(FlagField(driftedB[i]), <<baseline.DatabaseFlags[driftedB[i]]>>,
                       <<"not set">>, "medium")
            ELSE Drift(FlagField(driftedB[i]), <<baseline.DatabaseFlags[driftedB[i]]>>,
                       <<config.DatabaseFlags[driftedB[i]]>>, "medium")]
        \o
        [i \in 1..Len(extraA) |->
            Drift(FlagField(extraA[i]), <<"not set">>,
                  <<config.DatabaseFlags[extraA[i]]>>, "low")]

\* compareAuthorizedNetworks that reports the extra networks only when no
\* required network is missing
compareAuthorizedNetworksElseExtra(baseline, actual, ordB, ordA) ==
    LET baselineNets == Range(baseline.AuthorizedNetworks)
        actualNets   == Range(actual.AuthorizedNetworks)
        requiredNets == SelectSeq(ordB, LAMBDA n : n \notin actualNets)
        extraNets    == SelectSeq(ordA, LAMBDA n : n \notin baselineNets)
    IN  IF Len(requiredNets) > 0
        THEN <<Drift(<<"settings.ip_configuration.authorized_networks">>,
                     <<"Required:">> \o FmtList(requiredNets),
                     FmtList(actual.AuthorizedNetworks), "high")>>
        ELSE DriftIf(Len(extraNets) > 0,
                     <<"settings.ip_configuration.authorized_networks">>,
                     FmtList(baseline.AuthorizedNetworks),
                     <<"Extra:">> \o FmtList(extraNets), "medium")

\* compareAuthorizedNetworks; ordB and ordA are the iteration orders of the
\* baselineNets and actualNets sets
compareAuthorizedNetworks(baseline, actual, ordB, ordA) ==
    LET baselineNets == Range(baseline.AuthorizedNetworks)
        actualNets   == Range(actual.AuthorizedNetworks)
        requiredNets == SelectSeq(ordB, LAMBDA n : n \notin actualNets)
        extraNets    == SelectSeq(ordA, LAMBDA n : n \notin baselineNets)
    IN  DriftIf(Len(requiredNets) > 0,
                <<"settings.ip_configuration.authorized_networks">>,
                <<"Required:">> \o FmtList(requiredNets),
                FmtList(actual.AuthorizedNetworks), "high")
        \o
        DriftIf(Len(extraNets) > 0,
                <<"settings.ip_configuration.authorized_networks">>,
                FmtList(baseline.AuthorizedNetworks),
                <<"Extra:">> \o FmtList(extraNets), "medium")

\* compareSettings; the caller guarantees nothing about either pointer
compareSettings(actual, baseline, ord) ==
    IF baseline.isNil THEN <<>>
    ELSE
        DriftIf(baseline.AvailabilityType # "" /\ actual.AvailabilityType # baseline.AvailabilityType,
                <<"settings.availability_type">>,
                <<baseline.AvailabilityType>>, <<actual.AvailabilityType>>, "high")
        \o
        DriftIf(actual.BackupEnabled # baseline.BackupEnabled,
                <<"settings.backup_enabled">>,
                <<FmtBool(baseline.BackupEnabled)>>, <<FmtBool(actual.BackupEnabled)>>, "critical")
        \o
        DriftIf(actual.PointInTimeRecovery # baseline.PointInTimeRecovery,
                <<"settings.point_in_time_recovery">>,
                <<FmtBool(baseline.PointInTimeRecovery)>>, <<FmtBool(actual.PointInTimeRecovery)>>, "high")
        \o
        DriftIf(baseline.BackupRetentionDays > 0
                    /\ actual.BackupRetentionDays # baseline.BackupRetentionDays,
                <<"settings.backup_retention_days">>,
                <<FmtInt(baseline.BackupRetentionDays)>>, <<FmtInt(actual.BackupRetentionDays)>>, "medium")
        \o
        DriftIf(baseline.TransactionLogRetentionDays > 0
                    /\ actual.TransactionLogRetentionDays # baseline.TransactionLogRetentionDays,
                <<"settings.transaction_log_retention_days">>,
                <<FmtInt(baseline.TransactionLogRetentionDays)>>,
                <<FmtInt(actual.TransactionLogRetentionDays)>>, "medium")
        \o
        DriftIf(baseline.PricingPlan # "" /\ actual.PricingPlan # baseline.PricingPlan,
                <<"settings.pricing_plan">>,
                <<baseline.PricingPlan>>, <<actual.PricingPlan>>, "low")
        \o
        DriftIf(baseline.ReplicationType # "" /\ actual.ReplicationType # baseline.ReplicationType,
                <<"settings.replication_type">>,
                <<baseline.ReplicationType>>, <<actual.ReplicationType>>, "medium")
        \o
        DriftIf(baseline.BackupStartTime # "" /\ actual.BackupStartTime # baseline.BackupStartTime,
                <<"settings.backup_start_time">>,
                <<baseline.BackupStartTime>>, <<actual.BackupStartTime>>, "low")
        \o
        (IF ~baseline.IPConfiguration.isNil /\ ~actual.IPConfiguration.isNil
         THEN DriftIf(actual.IPConfiguration.IPv4Enabled # baseline.IPConfiguration.IPv4Enabled,
                      <<"settings.ip_configuration.ipv4_enabled">>,
                      <<FmtBool(baseline.IPConfiguration.IPv4Enabled)>>,
                      <<FmtBool(actual.IPConfiguration.IPv4Enabled)>>, "medium")
              \o
              DriftIf(actual.IPConfiguration.RequireSSL # baseline.IPConfiguration.RequireSSL,
                      <<"settings.ip_configuration.require_ssl">>,
                      <<FmtBool(baseline.IPConfiguration.RequireSSL)>>,
                      <<FmtBool(actual.IPConfiguration.RequireSSL)>>, "critical")
              \o
              (IF Len(baseline.IPConfiguration.AuthorizedNetworks) > 0
               THEN compareAuthorizedNetworks(baseline.IPConfiguration, actual.IPConfiguration,
                                              ord.netsB, ord.netsA)
               ELSE <<>>)
         ELSE <<>>)
        \o
        (IF ~baseline.InsightsConfig.isNil /\ ~actual.InsightsConfig.isNil
         THEN DriftIf(actual.InsightsConfig.QueryInsightsEnabled
                          # baseline.InsightsConfig.QueryInsightsEnabled,
                      <<"settings.insights_config.query_insights_enabled">>,
                      <<FmtBool(baseline.InsightsConfig.QueryInsightsEnabled)>>,
                      <<FmtBool(actual.InsightsConfig.QueryInsightsEnabled)>>, "low")
              \o
              DriftIf(baseline.InsightsConfig.QueryPlansPerMinute > 0
                          /\ actual.InsightsConfig.QueryPlansPerMinute
                              # baseline.InsightsConfig.QueryPlansPerMinute,
                      <<"settings.insights_config.query_plans_per_minute">>,
                      <<FmtInt(baseline.InsightsConfig.QueryPlansPerMinute)>>,
                      <<FmtInt(actual.InsightsConfig.QueryPlansPerMinute)>>, "low")
              \o
              DriftIf(baseline.InsightsConfig.QueryStringLength > 0
                          /\ actual.InsightsConfig.QueryStringLength
                              # baseline.InsightsConfig.QueryStringLength,
                      <<"settings.insights_config.query_string_length">>,
                      <<FmtInt(baseline.InsightsConfig.QueryStringLength)>>,
                      <<FmtInt(actual.InsightsConfig.QueryStringLength)>>, "low")
         ELSE <<>>)

\* checkRequiredDatabases with the severity of the extra databases taken
\* from their number
checkRequiredDatabasesBySize(inst, baseline, ordDbs) ==
    IF Len(baseline.RequiredDatabases) = 0 THEN <<>>
    ELSE LET existingDBs      == Range(inst.Databases)
             missingDatabases == SelectSeq(baseline.RequiredDatabases,
                                           LAMBDA db : db \notin existingDBs)
             requiredDBs      == Range(baseline.RequiredDatabases)
             extraDatabases   == SelectSeq(ordDbs, LAMBDA db : db \notin requiredDBs)
         IN  DriftIf(Len(missingDatabases) > 0, <<"required_databases">>,
                     FmtList(baseline.RequiredDatabases),
                     <<"Missing:">> \o FmtList(missingDatabases), "high")
             \o
             DriftIf(Len(extraDatabases) > 0, <<"required_databases">>,
                     FmtList(baseline.RequiredDatabases),
                     <<"Extra:">> \o FmtList(extraDatabases),
                     IF Len(extraDatabases) > 1 THEN "medium" ELSE "low")

\* checkRequiredDatabases; ordDbs is the iteration order of the existingDBs set
checkRequiredDatabases(inst, baseline, ordDbs) ==
    IF Len(baseline.RequiredDatabases) = 0 THEN <<>>
    ELSE LET existingDBs      == Range(inst.Databases)
             missingDatabases == SelectSeq(baseline.RequiredDatabases,
                                           LAMBDA db : db \notin existingDBs)
             requiredDBs      == Range(baseline.RequiredDatabases)
             extraDatabases   == SelectSeq(ordDbs, LAMBDA db : db \notin requiredDBs)
         IN  DriftIf(Len(missingDatabases) > 0, <<"required_databases">>,
                     FmtList(baseline.RequiredDatabases),
                     <<"Missing:">> \o FmtList(missingDatabases), "high")
             \o
             DriftIf(Len(extraDatabases) > 0, <<"required_databases">>,
                     FmtList(baseline.RequiredDatabases),
                     <<"Extra:">> \o FmtList(extraDatabases), "medium")

\* the Go comparison  version < "POSTGRES_14"  (bytewise) on the version
\* strings of the model
BeforePostgres14(version) == version \in {"", "POSTGRES_13"}

\* getBestPracticeRecommendations
getBestPracticeRecommendations(inst) ==
    LET settings == inst.Config.Settings
        Rec(cond, text) == IF cond THEN <<text>> ELSE <<>>
    IN  Rec(~settings.BackupEnabled, "CRITICAL: Enable automated backups")
        \o Rec(~settings.PointInTimeRecovery, "HIGH: Enable point-in-time recovery for better RPO")
        \o Rec(settings.AvailabilityType # "REGIONAL",
               "HIGH: Consider REGIONAL availability for production workloads")
        \o Rec(~settings.IPConfiguration.isNil /\ ~settings.IPConfiguration.RequireSSL,
               "CRITICAL: Enable SSL requirement for all connections")
        \o Rec(~settings.IPConfiguration.isNil /\ settings.IPConfiguration.IPv4Enabled,
               "MEDIUM: Consider using private IP instead of public IPv4")
        \o Rec(~inst.Config.DiskAutoresize, "MEDIUM: Enable disk autoresize to prevent storage issues")
        \o Rec(settings.InsightsConfig.isNil \/ ~settings.InsightsConfig.QueryInsightsEnabled,
               "LOW: Enable Query Insights for better performance monitoring")
        \o Rec(BeforePostgres14(inst.Config.DatabaseVersion),
               "MEDIUM: Consider upgrading to PostgreSQL 14+ for better performance and features")
        \o Rec(inst.MaintenanceWindow.isNil, "LOW: Set a maintenance window for predictable updates")

\* getRecommendations
getRecommendations(drifts) ==
    IF Len(drifts) = 0 THEN <<"No drift detected - instance matches baseline">>
    ELSE LET hasCritical == \E i \in 1..Len(drifts) : drifts[i].Severity = "critical"
             RecFor(d) ==
                (IF d.Field = <<"settings.backup_enabled">> /\ d.Actual = <<"false">>
                 THEN <<"Enable backups immediately to protect data">> ELSE <<>>)
                \o (IF d.Field = <<"settings.ip_configuration.require_ssl">> /\ d.Actual = <<"false">>
                    THEN <<"Enable SSL requirement to secure connections">> ELSE <<>>)
                \o (IF d.Field = <<"tier">>
                    THEN <<"Tier mismatch may affect performance and cost">> ELSE <<>>)
             RECURSIVE Specific(_)
             Specific(i) == IF i > Len(drifts) THEN <<>>
                            ELSE RecFor(drifts[i]) \o Specific(i + 1)
         IN  (IF hasCritical
              THEN <<"CRITICAL drifts detected - immediate action required">> ELSE <<>>)
             \o Specific(1)

\* the drifts analyzeInstance appends for a non-nil baseline, in order
instanceDrifts(inst, baseline, ord) ==
    DriftIf(baseline.DatabaseVersion # "" /\ inst.Config.DatabaseVersion # baseline.DatabaseVersion,
            <<"database_version">>,
            <<baseline.DatabaseVersion>>, <<inst.Config.DatabaseVersion>>, "medium")
    \o
    DriftIf(baseline.Tier # "" /\ inst.Config.Tier # baseline.Tier,
            <<"tier">>, <<baseline.Tier>>, <<inst.Config.Tier>>, "high")
    \o
    DriftIf(baseline.DiskType # "" /\ inst.Config.DiskType # baseline.DiskType,
            <<"disk_type">>, <<baseline.DiskType>>, <<inst.Config.DiskType>>, "medium")
    \o
    DriftIf(baseline.DiskSize > 0 /\ inst.Config.DiskSize # baseline.DiskSize,
            <<"disk_size_gb">>,
            <<FmtInt(baseline.DiskSize)>>, <<FmtInt(inst.Config.DiskSize)>>, "medium")
    \o
    DriftIf(baseline.DiskType # "" /\ inst.Config.DiskAutoresize # baseline.DiskAutoresize,
            <<"disk_autoresize">>,
            <<FmtBool(baseline.DiskAutoresize)>>, <<FmtBool(inst.Config.DiskAutoresize)>>, "low")
    \o compareDatabaseFlags(inst.Config, baseline, ord.flagsB, ord.flagsA)
    \o compareSettings(inst.Config.Settings, baseline.Settings, ord)
    \o checkRequiredDatabases(inst, baseline, ord.dbs)

\* the outcome of a call that dereferences a nil pointer
Panicked == [isNil |-> FALSE, panicked |-> TRUE]

\* Analyzer.analyzeInstance: the InstanceDrift of one instance. Two reads go
\* through inst.Config.Settings without a nil test: the first line of
\* getBestPracticeRecommendations, and in compareSettings the comparison of
\* BackupEnabled that follows the test of the baseline's pointer alone.
analyzeInstance(inst, baseline, ord) ==
    LET InstanceDrift(drifts, recs) ==
            [Project           |-> inst.Project,
             Name              |-> inst.Name,
             Region            |-> inst.Region,
             State             |-> inst.State,
             Labels            |-> inst.Labels,
             Databases         |-> inst.Databases,
             MaintenanceWindow |-> inst.MaintenanceWindow,
             Drifts            |-> drifts,
             Recommendations   |-> recs]
    IN  IF baseline.isNil
        THEN IF inst.Config.Settings.isNil
             THEN Panicked
             ELSE InstanceDrift(<<>>, getBestPracticeRecommendations(inst))
        ELSE IF ~baseline.Settings.isNil /\ inst.Config.Settings.isNil
        THEN Panicked
        ELSE LET drifts == instanceDrifts(inst, baseline, ord)
             IN  InstanceDrift(drifts, getRecommendations(drifts))

\* the iteration orders one analyzeInstance call can see in its range loops
\* over maps
Orders(inst, baseline) ==
    IF baseline.isNil
    THEN {[flagsB |-> <<>>, flagsA |-> <<>>, dbs |-> <<>>, netsB |-> <<>>, netsA |-> <<>>]}
    ELSE LET bIP == IF baseline.Settings.isNil THEN Nil ELSE baseline.Settings.IPConfiguration
             aIP == IF inst.Config.Settings.isNil THEN Nil
                    ELSE inst.Config.Settings.IPConfiguration
             nets == ~bIP.isNil /\ ~aIP.isNil
         IN  [flagsB : Perms(DOMAIN baseline.DatabaseFlags),
              flagsA : Perms(DOMAIN inst.Config.DatabaseFlags),
              dbs    : IF Len(baseline.RequiredDatabases) > 0
                       THEN Perms(Range(inst.Databases)) ELSE {<<>>},
              netsB  : IF nets THEN Perms(Range(bIP.AuthorizedNetworks)) ELSE {<<>>},
              netsA  : IF nets /\ Len(bIP.AuthorizedNetworks) > 0
                       THEN Perms(Range(aIP.AuthorizedNetworks)) ELSE {<<>>}]

----------------------------------------------------------------------------
(* The inputs of one comparison.                                           *)

MaxBaselineKeys == 1    \* keys a baseline YAML sets, at most
MaxActualDevs   == 1    \* fields in which the observed instance departs from BaseActualY

FlagKeys   == {"max_connections", "log_statement"}
FlagValues == {"on", "off"}

IPLeaves == {"settings.ip_configuration.ipv4_enabled",
             "settings.ip_configuration.require_ssl",
             "settings.ip_configuration.authorized_networks"}

InsightsLeaves == {"settings.insights_config.query_insights_enabled",
                   "settings.insights_config.query_plans_per_minute",
                   "settings.insights_config.query_string_length"}

SettingsLeaves == {"settings.availability_type", "settings.backup_enabled",
                   "settings.point_in_time_recovery", "settings.backup_retention_days",
                   "settings.transaction_log_retention_days", "settings.pricing_plan",
                   "settings.replication_type", "settings.backup_start_time"}

\* the YAML mappings that must be present for the key p to be set
ParentsOf(p) ==
    CASE p \in IPLeaves -> {"settings", "settings.ip_configuration"}
      [] p \in InsightsLeaves -> {"settings", "settings.insights_config"}
      [] p \in SettingsLeaves \cup {"settings.ip_configuration", "settings.insights_config"}
            -> {"settings"}
      [] OTHER -> {}

\* y with the key p set to v (and the mappings around p present)
YSet(y, p, v) ==
    [x \in DOMAIN y \cup {p} \cup ParentsOf(p) |->
        IF x = p THEN v ELSE IF x \in DOMAIN y THEN y[x] ELSE TRUE]

\* y without the mapping p and everything inside it
YRemove(y, p) ==
    [x \in {k \in DOMAIN y : k # p /\ p \notin ParentsOf(k)} |-> y[x]]

StringKeys == {"database_version", "tier", "disk_type", "settings.availability_type",
               "settings.pricing_plan", "settings.replication_type",
               "settings.backup_start_time"}
IntKeys    == {"disk_size_gb", "settings.backup_retention_days",
               "settings.transaction_log_retention_days",
               "settings.insights_config.query_plans_per_minute",
               "settings.insights_config.query_string_length"}
BoolKeys   == {"disk_autoresize", "settings.backup_enabled",
               "settings.point_in_time_recovery",
               "settings.ip_configuration.ipv4_enabled",
               "settings.ip_configuration.require_ssl",
               "settings.insights_config.query_insights_enabled"}
MappingKeys == {"settings", "settings.ip_configuration", "settings.insights_config"}

\* the value a baseline expects of a string key, and another value an
\* instance can have instead
Expected(k) ==
    CASE k = "database_version" -> "POSTGRES_15"
      [] k = "tier" -> "db-custom-2-7680"
      [] k = "disk_type" -> "PD_SSD"
      [] k = "settings.availability_type" -> "REGIONAL"
      [] k = "settings.pricing_plan" -> "PER_USE"
      [] k = "settings.replication_type" -> "SYNCHRONOUS"
      [] k = "settings.backup_start_time" -> "03:00"

Other(k) ==
    CASE k = "database_version" -> "POSTGRES_13"
      [] k = "tier" -> "db-f1-micro"
      [] k = "disk_type" -> "PD_HDD"
      [] k = "settings.availability_type" -> "ZONAL"
      [] k = "settings.pricing_plan" -> "PACKAGE"
      [] k = "settings.replication_type" -> "ASYNCHRONOUS"
      [] k = "settings.backup_start_time" -> "04:00"

\* the flag maps, database lists and network lists of the baselines and of
\* the instances: between them a key or an element is equal, different,
\* missing or extra
BaselineFlags == {[k \in {"max_connections"} |-> "on"], [k \in FlagKeys |-> "on"]}
ActualFlags   == {[k \in {"max_connections"} |-> v] : v \in FlagValues}
                 \cup {[k \in {"log_statement"} |-> "on"], [k \in FlagKeys |-> "off"]}
BaselineDbs   == {<<"postgres">>, <<"app", "postgres">>}
ActualDbs     == {<<>>, <<"postgres">>, <<"app", "postgres">>}
BaselineNets  == {<<"10.0.0.0/8">>, <<"10.0.0.0/8", "0.0.0.0/0">>}
ActualNets    == {<<"10.0.0.0/8">>, <<"0.0.0.0/0">>, <<"0.0.0.0/0", "10.0.0.0/8">>}

\* <<key, value>>: the settings one line of a baseline YAML can make
BaselineItems ==
    {<<k, Expected(k)>> : k \in StringKeys}
    \cup {<<k, 2>> : k \in IntKeys}
    \cup (BoolKeys \X BOOLEAN)
    \cup {<<k, TRUE>> : k \in MappingKeys}
    \cup {<<"database_flags", m>> : m \in BaselineFlags}
    \cup {<<"required_databases", l>> : l \in BaselineDbs}
    \cup {<<"settings.ip_configuration.authorized_networks", l>> : l \in BaselineNets}

\* the baseline YAMLs that set at most n keys
RECURSIVE BaselineYs(_)
BaselineYs(n) ==
    IF n = 0 THEN {EmptyMap}
    ELSE LET fewer == BaselineYs(n - 1)
         IN  fewer \cup {YSet(y, it[1], it[2]) :
                            y \in fewer, it \in BaselineItems}

\* a healthy instance as extractConfig and discoverProjectInstances read it:
\* Settings and DatabaseFlags are always allocated
BaseActualY ==
    [k \in StringKeys \cup IntKeys \cup BoolKeys \cup MappingKeys
           \cup {"database_flags", "databases", "maintenance_window",
                 "settings.ip_configuration.authorized_networks"} |->
        CASE k \in StringKeys -> Expected(k)
          [] k \in IntKeys -> 2
          [] k = "settings.ip_configuration.ipv4_enabled" -> FALSE
          [] k \in BoolKeys \ {"settings.ip_configuration.ipv4_enabled"} -> TRUE
          [] k \in MappingKeys \cup {"maintenance_window"} -> TRUE
          [] k = "database_flags" -> EmptyMap
          [] k = "databases" -> <<"app">>
          [] k = "settings.ip_configuration.authorized_networks" -> <<>>]

\* the mappings the API can leave out of an instance
OptionalMappings == {"settings.ip_configuration", "settings.insights_config",
                     "maintenance_window"}

\* the mappings an instance can lack: those, and Settings, which the
\* instances of TestAnalyzeInstance and TestAnalyzeDrift are built without
AbsentMappings == OptionalMappings \cup {"settings"}

\* <<key, value>>: one departure of an instance from BaseActualY; FALSE for
\* a mapping means the instance lacks it
ActualItems ==
    {<<k, Other(k)>> : k \in StringKeys}
    \cup {<<k, 1>> : k \in IntKeys}
    \cup {<<k, ~BaseActualY[k]>> : k \in BoolKeys}
    \cup {<<k, FALSE>> : k \in AbsentMappings}
    \cup {<<"database_flags", m>> : m \in ActualFlags}
    \cup {<<"databases", l>> : l \in ActualDbs}
    \cup {<<"settings.ip_configuration.authorized_networks", l>> : l \in ActualNets}

ApplyDev(y, it) ==
    IF it[1] \in AbsentMappings THEN YRemove(y, it[1]) ELSE YSet(y, it[1], it[2])

\* the instances that depart from BaseActualY in at most n places
RECURSIVE ActualYs(_)
ActualYs(n) ==
    IF n = 0 THEN {BaseActualY}
    ELSE LET fewer == ActualYs(n - 1)
         IN  fewer \cup {ApplyDev(y, it) : y \in fewer, it \in ActualItems}

\* the *DatabaseInstance discoverProjectInstances builds
DatabaseInstance(name, labels, y) ==
    [Project           |-> "p",
     Name              |-> name,
     State             |-> "RUNNABLE",
     Region            |-> "us-central1",
     Config            |-> DecodeConfig(y),
     MaintenanceWindow |-> IF "maintenance_window" \in DOMAIN y
                           THEN [isNil |-> FALSE, Day |-> 7, Hour |-> 3,
                                 UpdateTrack |-> "stable"]
                           ELSE Nil,
     Labels            |-> labels,
     Databases         |-> y["databases"]]

\* a label mapping of an instance; a nil map has isNil set
Labels(m) == [isNil |-> FALSE, m |-> m]
NilLabels == [isNil |-> TRUE, m |-> EmptyMap]

\* *DatabaseConfig of a baseline: nil, or decoded from its YAML keys
NilBaselineY == [isNil |-> TRUE, y |-> EmptyMap]
BaselineConfig(b) == IF b.isNil THEN Nil ELSE DecodeConfig(b.y)

NoDrift == [done |-> FALSE]
NoMatchYet == [done |-> FALSE]
NotRun == [done |-> FALSE]

----------------------------------------------------------------------------
(* SpecCompare: one instance compared with one baseline.                   *)

TheInstance == DatabaseInstance("i1", Labels(EmptyMap), actualY)
TheBaseline == BaselineConfig(baselineY)

\* the variables of the other specifications, at rest
IdleMatch ==
    /\ allInstances = <<>> /\ baselines = <<>> /\ op = "none"
    /\ reports = <<>> /\ evals = <<>> /\ lastReport = Nil
IdleCompare == actualY = EmptyMap /\ baselineY = NilBaselineY /\ drift = NoDrift
IdleSchema  ==
    schema = Nil /\ schemaBaseline = Nil /\ result = Nil /\ validationText = NotRun
IdleLabels  == labelsIn = NilLabels /\ filterIn = EmptyMap /\ matched = NoMatchYet
IdleGKE     == clusterActual = Nil /\ clusterBaseline = Nil /\ clusterDrift = NoDrift
IdleAux     ==
    /\ driftReport = Nil /\ reportText = NotRun
    /\ projectList = <<>> /\ discovery = NotRun /\ connections = <<>> /\ inspection = NotRun
    /\ inspector = Nil /\ processes = {} /\ inspected = NotRun

InitCompare ==
    /\ actualY \in ActualYs(MaxActualDevs)
    /\ baselineY \in {NilBaselineY}
                     \cup {[isNil |-> FALSE, y |-> y] : y \in BaselineYs(MaxBaselineKeys)}
    /\ drift = NoDrift
    /\ IdleMatch /\ IdleSchema /\ IdleLabels /\ IdleGKE /\ IdleAux

\* Analyzer.AnalyzeInstance(inst, baseline)
AnalyzeInstance ==
    /\ \E ord \in Orders(TheInstance, TheBaseline) :
          drift' = [done |-> TRUE, out |-> analyzeInstance(TheInstance, TheBaseline, ord)]
    /\ UNCHANGED <<actualY, baselineY>>
    /\ UNCHANGED <<matchVars, schemaVars, labelVars, gkeVars, auxVars>>

NextCompare == AnalyzeInstance

SpecCompare == InitCompare /\ [][NextCompare]_vars

----------------------------------------------------------------------------
(* The baseline matcher: label filters and the multi-baseline analysis.    *)

MaxInstances == 2    \* instances discovery returns, at most
MaxBaselines == 2    \* baselines the configuration lists, at most

LabelKeys == {"role", "database-role"}

\* the label mappings of the matcher's instances and filters: none, one
\* key, one key with an empty value, two keys
LabelMaps ==
    {EmptyMap,
     [k \in {"role"} |-> "vault"],
     [k \in {"role"} |-> ""],
     [k \in LabelKeys |-> "vault"]}

\* fmt.Sprintf("%s/%s", inst.Project, inst.Name); project and instance names
\* contain no "/", so the pair stands for the string
InstanceKey(inst) == <<inst.Project, inst.Name>>

\* matchesLabels (pkg/gcp/sql/command.go)
matchesLabels(inst, labels) ==
    IF inst.Labels.isNil THEN FALSE
    ELSE \A key \in DOMAIN labels :
            key \in DOMAIN inst.Labels.m /\ inst.Labels.m[key] = labels[key]

\* filterInstancesByLabels
filterInstancesByLabels(instances, labels) ==
    IF Cardinality(DOMAIN labels) = 0 THEN instances
    ELSE SelectSeq(instances, LAMBDA inst : matchesLabels(inst, labels))

\* the label test runSQLAnalysis inlines: inst.Labels[key] != value, where
\* indexing a nil map or a missing key yields ""
cmdMatches(inst, filterLabels) ==
    \A key \in DOMAIN filterLabels :
        MapGet(inst.Labels.m, key, "") = filterLabels[key]

\* The instances of the matcher carry at most one flag, network and
\* database, so each map iteration of analyzeInstance has one order.
TheOrder(inst, baseline) == CHOOSE ord \in Orders(inst, baseline) : TRUE

\* the state of a report under construction, with the log of the
\* analyzeInstance calls made for it
EmptyRun(total) ==
    [report   |-> [isNil |-> FALSE, TotalInstances |-> total,
                   DriftedInstances |-> 0, Instances |-> <<>>],
     analyzed |-> {},
     evals    |-> <<>>]

\* Analyzed with the drifted counter raised for every analysed instance
AnalyzedCountAll(run, inst, bi, config) ==
    LET d == analyzeInstance(inst, config, TheOrder(inst, config))
    IN  [report   |-> [run.report EXCEPT
                          !.Instances = Append(@, d),
                          !.DriftedInstances = @ + 1],
         analyzed |-> run.analyzed \cup {InstanceKey(inst)},
         evals    |-> Append(run.evals, [key |-> InstanceKey(inst), baseline |-> bi])]

\* one analyzeInstance call appended to the report: the loop body shared by
\* AnalyzeDrift (lines 305-310) and analyzeMultipleBaselines (lines 303-310)
Analyzed(run, inst, bi, config) ==
    LET d == analyzeInstance(inst, config, TheOrder(inst, config))
    IN  [report   |-> [run.report EXCEPT
                          !.Instances = Append(@, d),
                          !.DriftedInstances = IF Len(d.Drifts) > 0 THEN @ + 1 ELSE @],
         analyzed |-> run.analyzed \cup {InstanceKey(inst)},
         evals    |-> Append(run.evals, [key |-> InstanceKey(inst), baseline |-> bi])]

\* Analyzer.AnalyzeDrift(instances, baseline); bi names the baseline in the log
RECURSIVE AnalyzeDriftFrom(_, _, _, _, _)
AnalyzeDriftFrom(run, instances, i, bi, config) ==
    IF i > Len(instances) THEN run
    ELSE AnalyzeDriftFrom(Analyzed(run, instances[i], bi, config),
                          instances, i + 1, bi, config)

AnalyzeDrift(instances, bi, config) ==
    AnalyzeDriftFrom(EmptyRun(Len(instances)), instances, 1, bi, config)

\* AnalyzeFiltered without the analyzedInstances test of line 299
RECURSIVE AnalyzeFilteredNoSkip(_, _, _, _, _)
AnalyzeFilteredNoSkip(run, filtered, i, bi, config) ==
    IF i > Len(filtered) THEN run
    ELSE AnalyzeFilteredNoSkip(Analyzed(run, filtered[i], bi, config),
                               filtered, i + 1, bi, config)

\* the inner loop of analyzeMultipleBaselines over filteredInstances
RECURSIVE AnalyzeFiltered(_, _, _, _, _)
AnalyzeFiltered(run, filtered, i, bi, config) ==
    IF i > Len(filtered) THEN run
    ELSE IF InstanceKey(filtered[i]) \in run.analyzed
         THEN AnalyzeFiltered(run, filtered, i + 1, bi, config)
         ELSE AnalyzeFiltered(Analyzed(run, filtered[i], bi, config),
                              filtered, i + 1, bi, config)

\* analyzeMultipleBaselines
RECURSIVE AnalyzeBaselines(_, _, _, _)
AnalyzeBaselines(run, instances, bls, bi) ==
    IF bi > Len(bls) THEN run
    ELSE LET filtered == IF Cardinality(DOMAIN bls[bi].FilterLabels) > 0
                         THEN filterInstancesByLabels(instances, bls[bi].FilterLabels)
                         ELSE instances
         IN  AnalyzeBaselines(
                 AnalyzeFiltered(run, filtered, 1, bi, BaselineConfig(bls[bi].Config)),
                 instances, bls, bi + 1)

\* analyzeMultipleBaselines with the total taken from the analysed instances
analyzeMultipleBaselinesTotalAnalysed(instances, bls) ==
    LET run == AnalyzeBaselines(EmptyRun(Len(instances)), instances, bls, 1)
    IN  [run EXCEPT !.report.TotalInstances = Len(run.report.Instances)]

analyzeMultipleBaselines(instances, bls) ==
    AnalyzeBaselines(EmptyRun(Len(instances)), instances, bls, 1)

\* Analyzer.GetDriftCount
GetDriftCount(last) == IF last.isNil THEN 0 ELSE last.DriftedInstances

\* Analyzer.GenerateReport: the error "no analysis has been performed yet",
\* or the text of the last report
GenerateReport(last) ==
    IF last.isNil THEN [err |-> TRUE] ELSE [err |-> FALSE, report |-> last]

OutputFormats == {"tui", "json", "yaml", "text"}

\* the loop of runSQLAnalysis over config.SQLBaselines from baseline bi on:
\* every pass discovers all instances again, filters them and calls
\* AnalyzeDrift; the "tui" format returns out of the loop after its first pass
RECURSIVE SQLAnalysisFrom(_, _, _, _, _)
SQLAnalysisFrom(acc, instances, bls, bi, format) ==
    IF bi > Len(bls) THEN acc
    ELSE LET filtered == IF Cardinality(DOMAIN bls[bi].FilterLabels) > 0
                         THEN SelectSeq(instances,
                                  LAMBDA inst : cmdMatches(inst, bls[bi].FilterLabels))
                         ELSE instances
             run  == AnalyzeDrift(filtered, bi, BaselineConfig(bls[bi].Config))
             next == [reports |-> Append(acc.reports, run.report),
                      evals   |-> acc.evals \o run.evals,
                      last    |-> run.report]
         IN  IF format = "tui" THEN next
             ELSE SQLAnalysisFrom(next, instances, bls, bi + 1, format)

----------------------------------------------------------------------------
(* Spec: a configuration and a set of discovered instances, analysed by    *)
(* either entry point.                                                     *)

InstanceNames == <<"i1", "i2", "i3", "i4">>
BaselineNames == <<"b1", "b2", "b3", "b4">>

\* an instance without user labels has a nil map
InstanceLabels == {NilLabels} \cup {Labels(m) : m \in LabelMaps \ {EmptyMap}}

\* every second instance runs on another tier than the first
ConfigY(i) == IF i % 2 = 0 THEN YSet(BaseActualY, "tier", Other("tier")) ELSE BaseActualY

InstanceLists ==
    UNION {{[i \in 1..n |-> DatabaseInstance(InstanceNames[i], lab[i], ConfigY(i))] :
                lab \in [1..n -> InstanceLabels]} : n \in 0..MaxInstances}

\* a baseline of the matcher has no config, or expects the tier of the
\* first instance
MatcherConfigs == {NilBaselineY,
                   [isNil |-> FALSE, y |-> YSet(EmptyMap, "tier", Expected("tier"))]}

BaselineLists ==
    UNION {{[i \in 1..n |-> [Name         |-> BaselineNames[i],
                             FilterLabels |-> f[i],
                             Config       |-> c[i]]] :
                f \in [1..n -> LabelMaps], c \in [1..n -> MatcherConfigs]} :
           n \in 0..MaxBaselines}

Init ==
    /\ allInstances \in InstanceLists
    /\ baselines \in BaselineLists
    /\ op = "none"
    /\ reports = <<>> /\ evals = <<>> /\ lastReport = Nil
    /\ IdleCompare /\ IdleSchema /\ IdleLabels /\ IdleGKE /\ IdleAux

\* Command.Execute (pkg/gcp/sql/command.go) with a project list from the
\* configuration file; a process runs one entry point, once
Execute ==
    /\ op = "none"
    /\ op' = "Execute"
    /\ \E generateConfig \in BOOLEAN :
          IF Len(allInstances) = 0 \/ generateConfig
          THEN reports' = <<>> /\ evals' = <<>> /\ lastReport' = Nil
          ELSE IF Len(baselines) > 0
          THEN LET run == analyzeMultipleBaselines(allInstances, baselines)
               IN  /\ reports' = <<run.report>>
                   /\ evals' = run.evals
                   /\ lastReport' = Nil
          ELSE \E filterRole \in {"", "vault"} :
               LET filterLabels == IF filterRole # ""
                                   THEN [k \in {"database-role"} |-> filterRole]
                                   ELSE EmptyMap
                   instances == IF Cardinality(DOMAIN filterLabels) > 0
                                THEN filterInstancesByLabels(allInstances, filterLabels)
                                ELSE allInstances
                   run == AnalyzeDrift(instances, 0, Nil)
               IN  /\ reports' = <<run.report>>
                   /\ evals' = run.evals
                   /\ lastReport' = run.report
    /\ UNCHANGED <<allInstances, baselines>>
    /\ UNCHANGED <<compareVars, schemaVars, labelVars, gkeVars, auxVars>>

\* runSQLAnalysis (cmd/gcp_sql.go)
RunSQLAnalysis ==
    /\ op = "none"
    /\ op' = "runSQLAnalysis"
    /\ \E format \in OutputFormats :
          IF Len(baselines) = 0
          THEN reports' = <<>> /\ evals' = <<>> /\ lastReport' = Nil
          ELSE LET acc == SQLAnalysisFrom([reports |-> <<>>, evals |-> <<>>, last |-> Nil],
                                          allInstances, baselines, 1, format)
               IN  /\ reports' = acc.reports
                   /\ evals' = acc.evals
                   /\ lastReport' = acc.last
    /\ UNCHANGED <<allInstances, baselines>>
    /\ UNCHANGED <<compareVars, schemaVars, labelVars, gkeVars, auxVars>>

Next == Execute \/ RunSQLAnalysis

Spec == Init /\ [][Next]_vars

----------------------------------------------------------------------------
(* SpecLabels: matchesLabels applied to one instance and one filter.       *)

AllLabelMaps == PartialMaps(LabelKeys, {"vault", ""})

InitLabels ==
    /\ labelsIn \in {NilLabels} \cup {Labels(m) : m \in AllLabelMaps}
    /\ filterIn \in AllLabelMaps
    /\ matched = NoMatchYet
    /\ IdleMatch /\ IdleCompare /\ IdleSchema /\ IdleGKE /\ IdleAux

\* matchesLabels(inst, labels)
MatchesLabels ==
    /\ matched' = [done |-> TRUE,
                   v |-> matchesLabels(DatabaseInstance("i1", labelsIn, BaseActualY), filterIn)]
    /\ UNCHANGED <<labelsIn, filterIn>>
    /\ UNCHANGED <<matchVars, compareVars, schemaVars, gkeVars, auxVars>>

NextLabels == MatchesLabels

SpecLabels == InitLabels /\ [][NextLabels]_vars

----------------------------------------------------------------------------
(* The schema validator: ValidateSchemaAgainstBaseline.                    *)

RECURSIVE Concat(_)
Concat(ss) == IF ss = <<>> THEN <<>> ELSE Head(ss) \o Concat(Tail(ss))

\* fmt.Sprintf("%s.%s", o.Schema, o.Name). An object name is the sequence of
\* its tokens and a bare name is the one token <<o.Name>>; the schema and
\* object names of the model contain no ".", so two names are equal as
\* strings exactly when they are equal as token sequences.
QualifiedName(o) == <<o.Schema, ".", o.Name>>

\* fmt.Sprintf("%s.%s(%s)", fn.Schema, fn.Name, fn.Arguments)
RoutineName(o) == <<o.Schema, ".", o.Name, "(", o.Arguments, ")">>

\* a *int of the baseline
Ptr(n) == [isNil |-> FALSE, v |-> n]

\* a map[string]string of the baseline; NilMap is the nil map
Map(m) == [isNil |-> FALSE, m |-> m]
NilMap == [isNil |-> TRUE, m |-> EmptyMap]

CountMismatch(objectType, expected, actual) ==
    [ObjectType |-> objectType, Expected |-> expected, Actual |-> actual]

OwnershipViolation(objectType, objectName, actualOwner, expectedOwner, violationType) ==
    [ObjectType    |-> objectType,
     ObjectName    |-> objectName,
     ActualOwner   |-> actualOwner,
     ExpectedOwner |-> expectedOwner,
     ViolationType |-> violationType]

\* checkCount in which an expected count of 0 counts as not specified
checkCountNonZero(objectType, expected, actual) ==
    IF ~expected.isNil /\ expected.v # 0 /\ expected.v # actual
    THEN <<CountMismatch(objectType, expected.v, actual)>>
    ELSE <<>>

\* one "Check expected counts" block: expected is the baseline's *int
checkCount(objectType, expected, actual) ==
    IF ~expected.isNil /\ expected.v # actual
    THEN <<CountMismatch(objectType, expected.v, actual)>>
    ELSE <<>>

countMismatches(schm, baseline) ==
    checkCount("Tables", baseline.ExpectedTables, Len(schm.Tables))
    \o checkCount("Views", baseline.ExpectedViews, Len(schm.Views))
    \o checkCount("Roles", baseline.ExpectedRoles, Len(schm.Roles))
    \o checkCount("Extensions", baseline.ExpectedExtensions, Len(schm.Extensions))
    \o checkCount("Sequences", baseline.ExpectedSequences, Len(schm.Sequences))
    \o checkCount("Functions", baseline.ExpectedFunctions, Len(schm.Functions))
    \o checkCount("Procedures", baseline.ExpectedProcedures, Len(schm.Procedures))

\* the keys of tableMap and of viewMap: every qualified and every bare name
tableMap(tables) ==
    {QualifiedName(t) : t \in Range(tables)} \cup {<<t.Name>> : t \in Range(tables)}

\* the keys of extMap: ext.Name only
extMap(extensions) == {<<ext.Name>> : ext \in Range(extensions)}

\* a loop over a required list: one MissingObject per name the map lacks
requiredObjects(objectType, required, present) ==
    LET missing == SelectSeq(required, LAMBDA name : name \notin present)
    IN  [i \in 1..Len(missing) |-> [ObjectType |-> objectType, Name |-> missing[i]]]

missingObjects(schm, baseline) ==
    requiredObjects("Table", baseline.RequiredTables, tableMap(schm.Tables))
    \o requiredObjects("View", baseline.RequiredViews, tableMap(schm.Views))
    \o requiredObjects("Extension", baseline.RequiredExtensions, extMap(schm.Extensions))

\* the loop over baseline.ForbiddenTables
forbiddenObjects(schm, baseline) ==
    LET found == SelectSeq(baseline.ForbiddenTables,
                           LAMBDA name : name \in tableMap(schm.Tables))
    IN  [i \in 1..Len(found) |-> [ObjectType |-> "Table", Name |-> found[i]]]

\* "Check database ownership"
databaseOwnership(schm, baseline) ==
    IF baseline.ExpectedDatabaseOwner # "" /\ schm.Owner # baseline.ExpectedDatabaseOwner
    THEN <<OwnershipViolation("Database", <<schm.DatabaseName>>, schm.Owner,
                              <<baseline.ExpectedDatabaseOwner>>, "database_owner")>>
    ELSE <<>>

\* the check against baseline.AllowedOwners that ends the body of every
\* ownership loop; fmt.Sprintf("one of: %v", baseline.AllowedOwners)
allowedOwnersCheck(objectType, objectName, owner, baseline) ==
    IF Len(baseline.AllowedOwners) > 0 /\ owner \notin Range(baseline.AllowedOwners)
    THEN <<OwnershipViolation(objectType, objectName, owner,
                              <<"one of: ">> \o FmtList(baseline.AllowedOwners),
                              "wrong_owner")>>
    ELSE <<>>

\* the check against the expected owner of the object's category
expectedOwnerCheck(objectType, objectName, owner, expectedOwner) ==
    IF expectedOwner # "" /\ owner # expectedOwner
    THEN <<OwnershipViolation(objectType, objectName, owner, <<expectedOwner>>,
                              "wrong_owner")>>
    ELSE <<>>

\* checkOwnership in which a forbidden owner does not end the checks of the
\* object
checkOwnershipNoContinue(objectType, objectName, owner, keys, exceptions, expectedOwner, baseline) ==
    LET found == IF exceptions.isNil THEN <<>>
                 ELSE SelectSeq(keys, LAMBDA k : k \in DOMAIN exceptions.m)
    IN  (IF owner \in Range(baseline.ForbiddenOwners)
         THEN <<OwnershipViolation(objectType, objectName, owner,
                                   <<"(any non-forbidden owner)">>, "forbidden_owner")>>
         ELSE <<>>)
        \o (IF Len(found) > 0
            THEN IF owner # exceptions.m[found[1]]
                 THEN <<OwnershipViolation(objectType, objectName, owner,
                                           <<exceptions.m[found[1]]>>, "wrong_owner")>>
                 ELSE <<>>
            ELSE expectedOwnerCheck(objectType, objectName, owner, expectedOwner)
                 \o allowedOwnersCheck(objectType, objectName, owner, baseline))

\* checkOwnership in which the allowed-owners check runs only when the
\* expected-owner check found nothing
checkOwnershipElseAllowed(objectType, objectName, owner, keys, exceptions, expectedOwner, baseline) ==
    LET found == IF exceptions.isNil THEN <<>>
                 ELSE SelectSeq(keys, LAMBDA k : k \in DOMAIN exceptions.m)
        expected == expectedOwnerCheck(objectType, objectName, owner, expectedOwner)
    IN  IF owner \in Range(baseline.ForbiddenOwners)
        THEN <<OwnershipViolation(objectType, objectName, owner,
                                  <<"(any non-forbidden owner)">>, "forbidden_owner")>>
        ELSE IF Len(found) > 0
        THEN IF owner # exceptions.m[found[1]]
             THEN <<OwnershipViolation(objectType, objectName, owner,
                                       <<exceptions.m[found[1]]>>, "wrong_owner")>>
             ELSE <<>>
        ELSE IF Len(expected) > 0 THEN expected
        ELSE allowedOwnersCheck(objectType, objectName, owner, baseline)

\* The body of an ownership loop, for one object. keys are the names the loop
\* looks up in the exceptions map, in order: the table and view loops try the
\* qualified and then the bare name, the sequence, function and procedure
\* loops the qualified name only. Every branch that ends in "continue"
\* returns here without the checks below it.
checkOwnership(objectType, objectName, owner, keys, exceptions, expectedOwner, baseline) ==
    LET found == IF exceptions.isNil THEN <<>>
                 ELSE SelectSeq(keys, LAMBDA k : k \in DOMAIN exceptions.m)
    IN  IF owner \in Range(baseline.ForbiddenOwners)
        THEN <<OwnershipViolation(objectType, objectName, owner,
                                  <<"(any non-forbidden owner)">>, "forbidden_owner")>>
        ELSE IF Len(found) > 0
        THEN IF owner # exceptions.m[found[1]]
             THEN <<OwnershipViolation(objectType, objectName, owner,
                                       <<exceptions.m[found[1]]>>, "wrong_owner")>>
             ELSE <<>>
        ELSE expectedOwnerCheck(objectType, objectName, owner, expectedOwner)
             \o allowedOwnersCheck(objectType, objectName, owner, baseline)

\* "Check table ownership"
tableOwnership(schm, baseline) ==
    Concat([i \in 1..Len(schm.Tables) |->
        LET table == schm.Tables[i]
        IN  checkOwnership("Table", QualifiedName(table), table.Owner,
                       <<QualifiedName(table), <<table.Name>>>>,
                       baseline.TableOwnerExceptions, baseline.ExpectedTableOwner,
                       baseline)])

\* "Check view ownership"
viewOwnership(schm, baseline) ==
    Concat([i \in 1..Len(schm.Views) |->
        LET view == schm.Views[i]
        IN  checkOwnership("View", QualifiedName(view), view.Owner,
                       <<QualifiedName(view), <<view.Name>>>>,
                       baseline.ViewOwnerExceptions, baseline.ExpectedViewOwner,
                       baseline)])

\* "Check sequence ownership"
sequenceOwnership(schm, baseline) ==
    Concat([i \in 1..Len(schm.Sequences) |->
        LET seq == schm.Sequences[i]
        IN  checkOwnership("Sequence", QualifiedName(seq), seq.Owner,
                       <<QualifiedName(seq)>>,
                       baseline.SequenceOwnerExceptions, baseline.ExpectedSequenceOwner,
                       baseline)])

\* "Check function ownership"
functionOwnership(schm, baseline) ==
    Concat([i \in 1..Len(schm.Functions) |->
        LET fn == schm.Functions[i]
        IN  checkOwnership("Function", RoutineName(fn), fn.Owner,
                       <<RoutineName(fn)>>,
                       baseline.FunctionOwnerExceptions, baseline.ExpectedFunctionOwner,
                       baseline)])

\* "Check procedure ownership"
procedureOwnership(schm, baseline) ==
    Concat([i \in 1..Len(schm.Procedures) |->
        LET proc == schm.Procedures[i]
        IN  checkOwnership("Procedure", RoutineName(proc), proc.Owner,
                       <<RoutineName(proc)>>,
                       baseline.ProcedureOwnerExceptions, baseline.ExpectedProcedureOwner,
                       baseline)])

\* the *SchemaValidationResult of a call that returns
SchemaValidationResult(hasDrift, counts, missing, forbidden, ownership) ==
    [isNil               |-> FALSE,
     panicked            |-> FALSE,
     HasDrift            |-> hasDrift,
     CountMismatches     |-> counts,
     MissingObjects      |-> missing,
     ForbiddenObjects    |-> forbidden,
     OwnershipViolations |-> ownership]

\* "Determine if there's drift" without the ownership violations
hasDriftNoOwnership(counts, missing, forbidden, ownership) ==
    Len(counts) > 0 \/ Len(missing) > 0 \/ Len(forbidden) > 0

\* "Determine if there's drift"
hasDrift(counts, missing, forbidden, ownership) ==
    Len(counts) > 0 \/ Len(missing) > 0 \/ Len(forbidden) > 0 \/ Len(ownership) > 0

\* ValidateSchemaAgainstBaseline in which a pass runs only when the passes
\* before it found nothing
ValidateSchemaShortCircuit(schm, baseline) ==
    IF baseline.isNil
    THEN SchemaValidationResult(FALSE, <<>>, <<>>, <<>>, <<>>)
    ELSE IF schm.isNil
    THEN Panicked
    ELSE LET counts    == countMismatches(schm, baseline)
             missing   == IF Len(counts) > 0 THEN <<>>
                          ELSE missingObjects(schm, baseline)
             forbidden == IF Len(counts) > 0 \/ Len(missing) > 0 THEN <<>>
                          ELSE forbiddenObjects(schm, baseline)
             ownership == IF Len(counts) > 0 \/ Len(missing) > 0 \/ Len(forbidden) > 0
                          THEN <<>>
                          ELSE databaseOwnership(schm, baseline)
                               \o tableOwnership(schm, baseline)
                               \o viewOwnership(schm, baseline)
                               \o sequenceOwnership(schm, baseline)
                               \o functionOwnership(schm, baseline)
                               \o procedureOwnership(schm, baseline)
         IN  SchemaValidationResult(hasDrift(counts, missing, forbidden, ownership),
                                    counts, missing, forbidden, ownership)

\* ValidateSchemaAgainstBaseline without its first three lines: the nil
\* baseline is dereferenced by the first count check
ValidateSchemaNoNilCheck(schm, baseline) ==
    IF baseline.isNil \/ schm.isNil
    THEN Panicked
    ELSE LET counts    == countMismatches(schm, baseline)
             missing   == missingObjects(schm, baseline)
             forbidden == forbiddenObjects(schm, baseline)
             ownership == databaseOwnership(schm, baseline)
                          \o tableOwnership(schm, baseline)
                          \o viewOwnership(schm, baseline)
                          \o sequenceOwnership(schm, baseline)
                          \o functionOwnership(schm, baseline)
                          \o procedureOwnership(schm, baseline)
         IN  SchemaValidationResult(hasDrift(counts, missing, forbidden, ownership),
                                    counts, missing, forbidden, ownership)

\* ValidateSchemaAgainstBaseline(schema, baseline). A nil baseline returns
\* before the schema is read; after that the first loop over schema.Tables
\* dereferences the schema.
ValidateSchemaAgainstBaseline(schm, baseline) ==
    IF baseline.isNil
    THEN SchemaValidationResult(FALSE, <<>>, <<>>, <<>>, <<>>)
    ELSE IF schm.isNil
    THEN Panicked
    ELSE LET counts    == countMismatches(schm, baseline)
             missing   == missingObjects(schm, baseline)
             forbidden == forbiddenObjects(schm, baseline)
             ownership == databaseOwnership(schm, baseline)
                          \o tableOwnership(schm, baseline)
                          \o viewOwnership(schm, baseline)
                          \o sequenceOwnership(schm, baseline)
                          \o functionOwnership(schm, baseline)
                          \o procedureOwnership(schm, baseline)
         IN  SchemaValidationResult(hasDrift(counts, missing, forbidden, ownership),
                                    counts, missing, forbidden, ownership)

\* the line of one count mismatch: the pieces of
\* fmt.Sprintf("  %s: Expected %d, Found %d (diff: %+d)\n", ...)
CountMismatchLine(mismatch, diff) ==
    <<"  ", mismatch.ObjectType, ": Expected ", FmtD(mismatch.Expected),
      ", Found ", FmtD(mismatch.Actual), " (diff: ", FmtPlusD(diff), ")">>

\* the line of one ownership violation; no line for an unknown type
OwnershipLine(violation) ==
    CASE violation.ViolationType = "database_owner" ->
            <<<<"  [ERROR] ", violation.ObjectType, ": ", violation.ObjectName,
                " - Owner: ", violation.ActualOwner,
                ", Expected: ", violation.ExpectedOwner>>>>
      [] violation.ViolationType = "forbidden_owner" ->
            <<<<"  [ERROR] ", violation.ObjectType, ": ", violation.ObjectName,
                " - Forbidden owner: ", violation.ActualOwner>>>>
      [] violation.ViolationType = "wrong_owner" ->
            <<<<"  [WARNING] ", violation.ObjectType, ": ", violation.ObjectName,
                " - Owner: ", violation.ActualOwner,
                ", Expected: ", violation.ExpectedOwner>>>>
      [] OTHER -> <<>>

\* a headed block of lines, followed by an empty line; nothing for no items
Block(heading, lines) ==
    IF Len(lines) > 0 THEN <<<<heading>>>> \o lines \o <<<<>>>> ELSE <<>>

\* FormatValidationResult that prints expected - actual as the diff
FormatValidationResultReversed(res) ==
    IF ~res.HasDrift
    THEN <<<<"No schema drift detected - database matches baseline expectations">>>>
    ELSE LET RECURSIVE Ownership(_)
             Ownership(i) == IF i > Len(res.OwnershipViolations) THEN <<>>
                             ELSE OwnershipLine(res.OwnershipViolations[i]) \o Ownership(i + 1)
         IN  <<<<"SCHEMA DRIFT DETECTED:">>, <<>>>>
             \o Block("Count Mismatches:",
                      [i \in 1..Len(res.CountMismatches) |->
                          CountMismatchLine(res.CountMismatches[i],
                              res.CountMismatches[i].Expected - res.CountMismatches[i].Actual)])
             \o Block("Missing Required Objects:",
                      [i \in 1..Len(res.MissingObjects) |->
                          <<"  [MISSING] ", res.MissingObjects[i].ObjectType, ": ",
                            res.MissingObjects[i].Name>>])
             \o Block("Forbidden Objects Found:",
                      [i \in 1..Len(res.ForbiddenObjects) |->
                          <<"  [ERROR] ", res.ForbiddenObjects[i].ObjectType, ": ",
                            res.ForbiddenObjects[i].Name, " (should not exist)">>])
             \o (IF Len(res.OwnershipViolations) > 0
                 THEN <<<<"Ownership Violations:">>>> \o Ownership(1) \o <<<<>>>>
                 ELSE <<>>)

\* FormatValidationResult: the lines of the text, each as the pieces its
\* format string joins
FormatValidationResult(res) ==
    IF ~res.HasDrift
    THEN <<<<"No schema drift detected - database matches baseline expectations">>>>
    ELSE LET RECURSIVE Ownership(_)
             Ownership(i) == IF i > Len(res.OwnershipViolations) THEN <<>>
                             ELSE OwnershipLine(res.OwnershipViolations[i]) \o Ownership(i + 1)
         IN  <<<<"SCHEMA DRIFT DETECTED:">>, <<>>>>
             \o Block("Count Mismatches:",
                      [i \in 1..Len(res.CountMismatches) |->
                          CountMismatchLine(res.CountMismatches[i],
                              res.CountMismatches[i].Actual - res.CountMismatches[i].Expected)])
             \o Block("Missing Required Objects:",
                      [i \in 1..Len(res.MissingObjects) |->
                          <<"  [MISSING] ", res.MissingObjects[i].ObjectType, ": ",
                            res.MissingObjects[i].Name>>])
             \o Block("Forbidden Objects Found:",
                      [i \in 1..Len(res.ForbiddenObjects) |->
                          <<"  [ERROR] ", res.ForbiddenObjects[i].ObjectType, ": ",
                            res.ForbiddenObjects[i].Name, " (should not exist)">>])
             \o (IF Len(res.OwnershipViolations) > 0
                 THEN <<<<"Ownership Violations:">>>> \o Ownership(1) \o <<<<>>>>
                 ELSE <<>>)

----------------------------------------------------------------------------
(* SpecSchema: one schema snapshot validated against one baseline.         *)

MaxObjects == 2    \* objects a category of the snapshot holds, at most

Categories == {"Table", "View", "Sequence", "Function", "Procedure"}

\* <<schema, name>> of the i-th object of a category
ObjectNames == <<<<"public", "orders">>, <<"audit", "orders">>, <<"public", "users">>,
                 <<"audit", "users">>>>

Owners == {"app", "postgres", "root"}

\* TableInfo, ViewInfo and SequenceInfo, as far as the validator reads them
TableInfo(n, owner) == [Schema |-> n[1], Name |-> n[2], Owner |-> owner]

\* FunctionInfo and ProcedureInfo
FunctionInfo(n, owner) ==
    [Schema |-> n[1], Name |-> n[2], Owner |-> owner, Arguments |-> "integer"]

pgcrypto == [Name |-> "pgcrypto", Version |-> "1.3", Schema |-> "public"]

\* A *DatabaseSchema: the categories in populated hold one object per owner
\* of owners, the other categories are empty.
DatabaseSchema(populated, owners, extensions) ==
    LET Infos(category, Info(_, _)) ==
            IF category \in populated
            THEN [i \in 1..Len(owners) |-> Info(ObjectNames[i], owners[i])]
            ELSE <<>>
    IN  [isNil        |-> FALSE,
         DatabaseName |-> "appdb",
         Owner        |-> "app",
         Roles        |-> <<[Name |-> "app"]>>,
         Tables       |-> Infos("Table", TableInfo),
         Views        |-> Infos("View", TableInfo),
         Sequences    |-> Infos("Sequence", TableInfo),
         Functions    |-> Infos("Function", FunctionInfo),
         Procedures   |-> Infos("Procedure", FunctionInfo),
         Extensions   |-> extensions]

\* the snapshots: nil, or every category or one category populated
Schemas ==
    {Nil} \cup
    {DatabaseSchema(populated, owners, extensions) :
        populated \in {Categories} \cup {{c} : c \in Categories},
        owners \in UNION {[1..n -> Owners] : n \in 0..MaxObjects},
        extensions \in {<<>>, <<pgcrypto>>}}

\* A *SchemaBaseline that sets nothing. RequiredFunctions and
\* RequiredProcedures are the required_functions and required_procedures
\* lists of a schema_baseline, which the validator never reads.
EmptySchemaBaseline ==
    [isNil                    |-> FALSE,
     ExpectedTables           |-> Nil,
     ExpectedViews            |-> Nil,
     ExpectedRoles            |-> Nil,
     ExpectedExtensions       |-> Nil,
     ExpectedSequences        |-> Nil,
     ExpectedFunctions        |-> Nil,
     ExpectedProcedures       |-> Nil,
     ExpectedDatabaseOwner    |-> "",
     ExpectedTableOwner       |-> "",
     ExpectedViewOwner        |-> "",
     ExpectedSequenceOwner    |-> "",
     ExpectedFunctionOwner    |-> "",
     ExpectedProcedureOwner   |-> "",
     AllowedOwners            |-> <<>>,
     ForbiddenOwners          |-> <<>>,
     TableOwnerExceptions     |-> NilMap,
     ViewOwnerExceptions      |-> NilMap,
     SequenceOwnerExceptions  |-> NilMap,
     FunctionOwnerExceptions  |-> NilMap,
     ProcedureOwnerExceptions |-> NilMap,
     RequiredTables           |-> <<>>,
     RequiredViews            |-> <<>>,
     RequiredFunctions        |-> <<>>,
     RequiredProcedures       |-> <<>>,
     RequiredExtensions       |-> <<>>,
     ForbiddenTables          |-> <<>>]

\* the baseline fields of a category and of a counted object type
ExpectedOwnerField(category) ==
    CASE category = "Table" -> "ExpectedTableOwner"
      [] category = "View" -> "ExpectedViewOwner"
      [] category = "Sequence" -> "ExpectedSequenceOwner"
      [] category = "Function" -> "ExpectedFunctionOwner"
      [] category = "Procedure" -> "ExpectedProcedureOwner"

OwnerExceptionsField(category) ==
    CASE category = "Table" -> "TableOwnerExceptions"
      [] category = "View" -> "ViewOwnerExceptions"
      [] category = "Sequence" -> "SequenceOwnerExceptions"
      [] category = "Function" -> "FunctionOwnerExceptions"
      [] category = "Procedure" -> "ProcedureOwnerExceptions"

CountFields == {"ExpectedTables", "ExpectedViews", "ExpectedRoles", "ExpectedExtensions",
                "ExpectedSequences", "ExpectedFunctions", "ExpectedProcedures"}

RequiredFields == {"RequiredTables", "RequiredViews", "RequiredFunctions",
                   "RequiredProcedures"}

\* the name the validator reports for the first object of a category, and
\* that name without its schema prefix
FirstName(category) ==
    IF category \in {"Function", "Procedure"}
    THEN RoutineName(FunctionInfo(ObjectNames[1], "app"))
    ELSE QualifiedName(TableInfo(ObjectNames[1], "app"))

FirstBareName(category) ==
    IF category \in {"Function", "Procedure"}
    THEN <<ObjectNames[1][2], "(", "integer", ")">>
    ELSE <<ObjectNames[1][2]>>

\* the exception maps of a category: none, an entry under the qualified
\* name, under the bare name, under both
OwnerExceptions(category) ==
    {NilMap,
     Map([k \in {FirstName(category)} |-> "postgres"]),
     Map([k \in {FirstBareName(category)} |-> "postgres"]),
     Map([k \in {FirstName(category), FirstBareName(category)} |->
            IF k = FirstName(category) THEN "postgres" ELSE "app"])}

\* baselines of the ownership pass: the owner lists, and the expected owner
\* and the exceptions of one category
OwnershipBaselines ==
    UNION {{[EmptySchemaBaseline EXCEPT
                !.ForbiddenOwners = forbidden,
                !.AllowedOwners = allowed,
                ![ExpectedOwnerField(category)] = expectedOwner,
                ![OwnerExceptionsField(category)] = exceptions] :
            forbidden \in {<<>>, <<"root">>},
            allowed \in {<<>>, <<"app">>, <<"app", "postgres">>},
            expectedOwner \in {"", "app"},
            exceptions \in OwnerExceptions(category)} :
           category \in Categories}

\* baselines of the count pass: one expected count
\* expected_tables of the guide's count mismatch example
GuideExpectedTables == 124

CountBaselines ==
    {[EmptySchemaBaseline EXCEPT ![field] = Ptr(n)] :
        field \in CountFields, n \in 0..MaxObjects}
    \cup {[EmptySchemaBaseline EXCEPT !.ExpectedTables = Ptr(GuideExpectedTables)]}

\* the required and forbidden lists: a qualified name, a bare name, names of
\* objects further down the snapshot
RequiredNames ==
    {<<<<"public", ".", "orders">>>>,
     <<<<"orders">>>>,
     <<<<"audit", ".", "orders">>, <<"public", ".", "users">>>>}

RequiredExtensionNames ==
    {<<<<"pgcrypto">>>>,
     <<<<"public", ".", "pgcrypto">>>>,
     <<<<"uuid-ossp">>, <<"pgcrypto">>>>}

\* baselines of the required and forbidden passes, and of the database owner
ObjectBaselines ==
    {[EmptySchemaBaseline EXCEPT ![field] = names] :
        field \in RequiredFields \cup {"ForbiddenTables"}, names \in RequiredNames}
    \cup {[EmptySchemaBaseline EXCEPT !.RequiredExtensions = names] :
            names \in RequiredExtensionNames}
    \cup {[EmptySchemaBaseline EXCEPT !.ExpectedDatabaseOwner = owner] :
            owner \in {"app", "postgres"}}

\* baselines that engage several passes in one run
MixedBaselines ==
    {[EmptySchemaBaseline EXCEPT
        !.ExpectedTables = count,
        !.RequiredTables = required,
        !.ForbiddenTables = forbidden,
        !.ExpectedTableOwner = expectedOwner] :
     count \in {Nil, Ptr(0)},
     required \in {<<>>, <<<<"public", ".", "users">>>>},
     forbidden \in {<<>>, <<<<"public", ".", "orders">>>>},
     expectedOwner \in {"", "postgres"}}

SchemaBaselines ==
    {Nil} \cup OwnershipBaselines \cup CountBaselines \cup ObjectBaselines
    \cup MixedBaselines

InitSchema ==
    /\ schema \in Schemas
    /\ schemaBaseline \in SchemaBaselines
    /\ result = Nil
    /\ validationText = NotRun
    /\ IdleMatch /\ IdleCompare /\ IdleLabels /\ IdleGKE /\ IdleAux

\* one call of ValidateSchemaAgainstBaseline(schema, baseline)
ValidateSchema ==
    /\ result = Nil
    /\ result' = ValidateSchemaAgainstBaseline(schema, schemaBaseline)
    /\ UNCHANGED <<schema, schemaBaseline, validationText>>
    /\ UNCHANGED <<matchVars, compareVars, labelVars, gkeVars, auxVars>>

\* FormatValidationResult(validationResult), as inspectAllConnections and
\* the single-connection command call it on the result of a validation
FormatValidation ==
    /\ ~result.isNil /\ ~result.panicked
    /\ validationText = NotRun
    /\ validationText' = [done |-> TRUE, lines |-> FormatValidationResult(result)]
    /\ UNCHANGED <<schema, schemaBaseline, result>>
    /\ UNCHANGED <<matchVars, compareVars, labelVars, gkeVars, auxVars>>

NextSchema == ValidateSchema \/ FormatValidation

SpecSchema == InitSchema /\ [][NextSchema]_vars

----------------------------------------------------------------------------
(* The GKE analyzer: the comparison of the master version.  A version      *)
(* string is the sequence of its characters.                               *)

\* extractMinorVersion: a version shorter than four characters is returned
\* whole; otherwise the version is cut before the first "." found from its
\* third character on, and returned whole when there is none.
extractMinorVersion(version) ==
    IF Len(version) < 4 THEN version
    ELSE LET dots == {i \in 3..Len(version) : version[i] = "."}
         IN  IF dots = {} THEN version
             ELSE SubSeq(version, 1, (CHOOSE i \in dots : \A j \in dots : i <= j) - 1)

\* Analyzer.compareVersion: the Drifts it appends
compareVersion(actual, baseline) ==
    IF baseline.MasterVersion # <<>>
          /\ extractMinorVersion(actual.MasterVersion)
                # extractMinorVersion(baseline.MasterVersion)
    THEN <<Drift(<<"cluster.master_version">>, baseline.MasterVersion,
                 actual.MasterVersion, "high")>>
    ELSE <<>>

----------------------------------------------------------------------------
(* SpecGKE: the master version of one cluster compared with a baseline.    *)

MaxDigits == 2    \* digits of a version component, at most

Digits == {"1", "2"}

\* the numbers of up to MaxDigits digits
Numbers == UNION {[1..n -> Digits] : n \in 1..MaxDigits}

\* what follows major.minor: nothing, a patch level, a patch level and a
\* build as in 1.27.3-gke.100
Suffixes == {<<>>, <<".", "3">>, <<".", "3", "-", "g", "k", "e", ".", "1">>}

Versions ==
    {major \o <<".">> \o minor \o suffix :
        major \in Numbers, minor \in Numbers, suffix \in Suffixes}

\* a *ClusterConfig, as far as compareVersion reads it
ClusterConfig(version) == [isNil |-> FALSE, MasterVersion |-> version]

InitGKE ==
    /\ clusterActual \in {ClusterConfig(v) : v \in Versions}
    /\ clusterBaseline \in {ClusterConfig(v) : v \in Versions \cup {<<>>}}
    /\ clusterDrift = NoDrift
    /\ IdleMatch /\ IdleCompare /\ IdleSchema /\ IdleLabels /\ IdleAux

\* a.compareVersion(actual, baseline, drift) on the empty drift of
\* analyzeCluster
CompareVersion ==
    /\ clusterDrift' = [done |-> TRUE,
                        Drifts |-> compareVersion(clusterActual, clusterBaseline)]
    /\ UNCHANGED <<clusterActual, clusterBaseline>>
    /\ UNCHANGED <<matchVars, compareVars, schemaVars, labelVars, auxVars>>

NextGKE == CompareVersion

SpecGKE == InitGKE /\ [][NextGKE]_vars

----------------------------------------------------------------------------
(* The report aggregator: DriftReport.FormatText and countBySeverity.      *)

\* DriftReport.countBySeverity without the case "low"
countBySeverityNoLow(report) ==
    LET drifts == [i \in 1..Len(report.Instances) |-> report.Instances[i].Drifts]
        Count(severity) ==
            LET RECURSIVE From(_)
                From(i) == IF i > Len(drifts) THEN 0
                           ELSE Len(SelectSeq(drifts[i], LAMBDA d : d.Severity = severity))
                                + From(i + 1)
            IN  From(1)
    IN  [critical |-> Count("critical"), high |-> Count("high"),
         medium |-> Count("medium"), low |-> 0]

\* DriftReport.countBySeverity: the switch counts the four severities and
\* passes over any other
countBySeverity(report) ==
    LET drifts == [i \in 1..Len(report.Instances) |-> report.Instances[i].Drifts]
        Count(severity) ==
            LET RECURSIVE From(_)
                From(i) == IF i > Len(drifts) THEN 0
                           ELSE Len(SelectSeq(drifts[i], LAMBDA d : d.Severity = severity))
                                + From(i + 1)
            IN  From(1)
    IN  [critical |-> Count("critical"), high |-> Count("high"),
         medium |-> Count("medium"), low |-> Count("low")]

\* report.FormatDriftSummary: a line for every severity that occurs
FormatDriftSummary(critical, high, medium, low) ==
    IF critical + high + medium + low > 0
    THEN <<<<"Drift Summary:">>>>
         \o (IF critical > 0 THEN <<<<"  [!] CRITICAL: ", FmtD(critical)>>>> ELSE <<>>)
         \o (IF high > 0 THEN <<<<"  [!] HIGH:     ", FmtD(high)>>>> ELSE <<>>)
         \o (IF medium > 0 THEN <<<<"  [*] MEDIUM:   ", FmtD(medium)>>>> ELSE <<>>)
         \o (IF low > 0 THEN <<<<"  [-] LOW:      ", FmtD(low)>>>> ELSE <<>>)
         \o <<<<>>>>
    ELSE <<>>

\* float64(total-drifted)/float64(total)*100: a float64 division, which
\* yields NaN for 0/0 and never fails.  A defined rate is kept in tenths of
\* a percent, rounded to the nearest as the verb %.1f rounds it (no rate of
\* a report with fewer than 16 instances lies halfway between two tenths).
ComplianceRate(total, drifted) ==
    IF total = 0 THEN [nan |-> TRUE]
    ELSE [nan |-> FALSE, tenths |-> (2000 * (total - drifted) + total) \div (2 * total)]

\* fmt.Sprintf("%.1f", rate), as characters
FmtRate(rate) ==
    IF rate.nan THEN <<"N", "a", "N">>
    ELSE FmtD(rate.tenths \div 10) \o <<".">> \o FmtD(rate.tenths % 10)

\* DriftReport.FormatText of the sql package: the lines of the header and of
\* the summary, with the severity totals it printed them from
FormatText(report) ==
    LET counts == countBySeverity(report)
    IN  [done   |-> TRUE,
         counts |-> counts,
         lines  |-> <<<<"Total Instances: ", FmtD(report.TotalInstances)>>,
                      <<"Instances with Drift: ", FmtD(report.DriftedInstances)>>,
                      <<"Compliance Rate: ",
                        FmtRate(ComplianceRate(report.TotalInstances,
                                               report.DriftedInstances)), "%">>,
                      <<>>>>
                    \o FormatDriftSummary(counts.critical, counts.high,
                                          counts.medium, counts.low)]

----------------------------------------------------------------------------
(* SpecReport: one report of Analyzer.AnalyzeDrift, printed as text.       *)

MaxReportInstances == 2    \* instances the analysed list holds, at most

\* a baseline that expects the tier only, and one that expects every value
\* of BaseActualY
ReportBaselineYs ==
    {YSet(EmptyMap, "tier", Expected("tier")),
     [k \in StringKeys \cup IntKeys \cup BoolKeys \cup MappingKeys |-> BaseActualY[k]]}

\* the instances of a report: in line with the baseline, on another tier,
\* without backups, on another version, without SSL, on another pricing
\* plan, with a flag of their own, or several of these
ReportActualYs ==
    {BaseActualY,
     YSet(BaseActualY, "settings.ip_configuration.require_ssl", FALSE),
     YSet(BaseActualY, "settings.pricing_plan", Other("settings.pricing_plan")),
     YSet(BaseActualY, "tier", Other("tier")),
     YSet(BaseActualY, "settings.backup_enabled", FALSE),
     YSet(BaseActualY, "database_version", Other("database_version")),
     YSet(BaseActualY, "database_flags", [k \in {"log_statement"} |-> "on"]),
     YSet(YSet(YSet(BaseActualY, "tier", Other("tier")),
               "settings.backup_enabled", FALSE),
          "database_flags", [k \in {"log_statement"} |-> "on"])}

\* the lists handed to AnalyzeDrift; a label filter that matches nothing
\* leaves the empty list
ReportInstanceLists ==
    UNION {{[i \in 1..n |-> DatabaseInstance(InstanceNames[i], NilLabels, ys[i])] :
                ys \in [1..n -> ReportActualYs]} : n \in 0..MaxReportInstances}

InitReport ==
    /\ driftReport \in
          {AnalyzeDrift(instances, 0, DecodeConfig(y)).report :
               instances \in ReportInstanceLists, y \in ReportBaselineYs}
    /\ reportText = NotRun
    /\ projectList = <<>> /\ discovery = NotRun /\ connections = <<>> /\ inspection = NotRun
    /\ inspector = Nil /\ processes = {} /\ inspected = NotRun
    /\ IdleMatch /\ IdleCompare /\ IdleSchema /\ IdleLabels /\ IdleGKE

\* outputReport with the format "text", or Analyzer.GenerateReport
ReportFormatText ==
    /\ reportText = NotRun
    /\ reportText' = FormatText(driftReport)
    /\ UNCHANGED <<driftReport, projectList, discovery, connections, inspection,
                   inspector, processes, inspected>>
    /\ UNCHANGED <<matchVars, compareVars, schemaVars, labelVars, gkeVars>>

NextReport == ReportFormatText

SpecReport == InitReport /\ [][NextReport]_vars

----------------------------------------------------------------------------
(* The batches: the discovery over the projects and the inspection of the  *)
(* configured database connections.                                        *)

\* Analyzer.discoverProjectInstances: the error of Instances.List, or one
\* DatabaseInstance for every item; a failed listDatabases leaves the
\* instance without databases and is only warned about
discoverProjectInstances(project) ==
    IF project.listFails THEN [err |-> TRUE, instances |-> <<>>]
    ELSE [err |-> FALSE,
          instances |-> [i \in 1..Len(project.items) |->
                            [Project   |-> project.name,
                             Name      |-> project.items[i].name,
                             Databases |-> IF project.items[i].listDatabasesFails
                                           THEN <<>> ELSE <<"app">>]]]

\* Analyzer.DiscoverInstances from project i on: the first project whose
\* listing fails ends the loop with (nil, error)
RECURSIVE DiscoverInstances(_, _, _)
DiscoverInstances(projects, i, instances) ==
    IF i > Len(projects) THEN [done |-> TRUE, err |-> FALSE, instances |-> instances]
    ELSE LET found == discoverProjectInstances(projects[i])
         IN  IF found.err
             THEN [done |-> TRUE, err |-> TRUE, instances |-> <<>>]
             ELSE DiscoverInstances(projects, i + 1, instances \o found.instances)

\* inspectAllConnections from connection i on: an invalid connection, a
\* failed NewInspectorFromDatabaseConnection and a failed InspectDatabase
\* each print an error and continue with the next connection
RECURSIVE inspectAllConnections(_, _, _)
inspectAllConnections(conns, i, run) ==
    IF i > Len(conns) THEN [run EXCEPT !.done = TRUE]
    ELSE LET conn == conns[i]
             seen == [run EXCEPT !.visited = Append(@, conn.name)]
         IN  IF conn.fate \in {"invalid", "no inspector", "inspection failed"}
             THEN inspectAllConnections(conns, i + 1,
                      [seen EXCEPT !.errors = Append(@, conn.name)])
             ELSE inspectAllConnections(conns, i + 1,
                      [seen EXCEPT !.outputs = Append(@, conn.name)])

----------------------------------------------------------------------------
(* SpecBatch: one discovery and one inspection of all connections.         *)

MaxBatch == 2    \* projects of a discovery and connections of a batch, at most

ProjectNames    == <<"p1", "p2", "p3", "p4">>
ConnectionNames == <<"c1", "c2", "c3", "c4">>

\* what the API returns for a project: an error, no instance, or one
\* instance whose databases can or cannot be listed
ProjectFates ==
    {[listFails |-> TRUE, items |-> <<>>], [listFails |-> FALSE, items |-> <<>>]}
    \cup {[listFails |-> FALSE, items |-> <<[name |-> "db", listDatabasesFails |-> f]>>] :
             f \in BOOLEAN}

ProjectLists ==
    UNION {{[i \in 1..n |-> [name      |-> ProjectNames[i],
                             listFails |-> fate[i].listFails,
                             items     |-> fate[i].items]] :
                fate \in [1..n -> ProjectFates]} : n \in 0..MaxBatch}

ConnectionFates == {"ok", "invalid", "no inspector", "inspection failed"}

ConnectionLists ==
    UNION {{[i \in 1..n |-> [name |-> ConnectionNames[i], fate |-> fate[i]]] :
                fate \in [1..n -> ConnectionFates]} : n \in 0..MaxBatch}

InitBatch ==
    /\ projectList \in ProjectLists
    /\ discovery = NotRun
    /\ connections \in ConnectionLists
    /\ inspection = NotRun
    /\ driftReport = Nil /\ reportText = NotRun
    /\ inspector = Nil /\ processes = {} /\ inspected = NotRun
    /\ IdleMatch /\ IdleCompare /\ IdleSchema /\ IdleLabels /\ IdleGKE

\* analyzer.DiscoverInstances(ctx, projects) of Command.Execute
Discover ==
    /\ discovery = NotRun
    /\ discovery' = DiscoverInstances(projectList, 1, <<>>)
    /\ UNCHANGED <<projectList, connections, inspection>>
    /\ UNCHANGED <<driftReport, reportText, inspector, processes, inspected>>
    /\ UNCHANGED <<matchVars, compareVars, schemaVars, labelVars, gkeVars>>

\* inspectAllConnections(ctx, cfg) of the inspect command
InspectAll ==
    /\ inspection = NotRun
    /\ \E newSchemaCacheFails \in BOOLEAN :
          inspection' =
             IF Len(connections) = 0
             THEN [done |-> TRUE, err |-> FALSE,
                   visited |-> <<>>, errors |-> <<>>, outputs |-> <<>>]
             ELSE IF newSchemaCacheFails
             THEN [done |-> TRUE, err |-> TRUE,
                   visited |-> <<>>, errors |-> <<>>, outputs |-> <<>>]
             ELSE inspectAllConnections(connections, 1,
                      [done |-> FALSE, err |-> FALSE,
                       visited |-> <<>>, errors |-> <<>>, outputs |-> <<>>])
    /\ UNCHANGED <<projectList, discovery, connections>>
    /\ UNCHANGED <<driftReport, reportText, inspector, processes, inspected>>
    /\ UNCHANGED <<matchVars, compareVars, schemaVars, labelVars, gkeVars>>

NextBatch == Discover \/ InspectAll

SpecBatch == InitBatch /\ [][NextBatch]_vars

----------------------------------------------------------------------------
(* The database inspector: InspectDatabase with the child process of its   *)
(* SSH tunnel or of its Cloud SQL proxy.                                   *)

\* SSHTunnelManager.Stop: nothing for a manager that is not connected,
\* otherwise the process is killed and waited for
SSHTunnelStop(manager, running) ==
    IF ~manager.isConnected THEN [manager |-> manager, running |-> running]
    ELSE [manager |-> [manager EXCEPT !.isConnected = FALSE],
          running |-> running \ {"ssh tunnel"}]

\* SSHTunnelManager.Start for a manager that is not connected.  spawned:
\* cmd.Start() succeeded; ready: waitForTunnel found the local port
\* listening within its 30 seconds; exited: the child ended by itself
SSHTunnelStart(manager, running, spawned, ready, exited) ==
    IF ~spawned THEN [err |-> TRUE, manager |-> manager, running |-> running]
    ELSE LET started == [manager EXCEPT !.hasProcess = TRUE]
             alive   == IF exited THEN running ELSE running \cup {"ssh tunnel"}
         IN  IF ~ready
             THEN LET stopped == SSHTunnelStop(started, alive)
                  IN  [err |-> TRUE, manager |-> stopped.manager,
                       running |-> stopped.running]
             ELSE [err |-> FALSE, manager |-> [started EXCEPT !.isConnected = TRUE],
                   running |-> alive]

\* ProxyManager.Stop: the process of pm.cmd, if there is one, is killed
ProxyStop(manager, running) ==
    IF ~manager.hasProcess THEN running ELSE running \ {"proxy"}

\* ProxyManager.Start: startGcloudProxy and startCloudSQLProxy fail only
\* when no process could be started (IsRunning reads a ProcessState that
\* nothing has set, so a started proxy always counts as running)
ProxyStart(manager, running, spawned) ==
    IF ~spawned THEN [err |-> TRUE, manager |-> manager, running |-> running]
    ELSE [err |-> FALSE, manager |-> [manager EXCEPT !.hasProcess = TRUE],
          running |-> running \cup {"proxy"}]

\* the steps of InspectDatabase behind the tunnel or proxy, in order
InspectionSteps == <<"connect", "ping database", "get database info", "get roles",
                     "get extensions", "get tables", "get views", "get sequences",
                     "get functions", "get procedures">>

----------------------------------------------------------------------------
(* SpecInspect: one InspectDatabase call.                                  *)

\* NewInspectorFromDatabaseConnection builds an inspector with a tunnel
\* manager, with a proxy manager, or with neither
InspectorKinds == {"direct", "ssh tunnel", "proxy"}

\* failsAt is the step at which the database fails the inspection ("none"
\* for a database that answers every query)
Inspectors ==
    {[isNil |-> FALSE, kind |-> kind, failsAt |-> step,
      pc |-> "start", deferred |-> <<>>,
      manager |-> [isConnected |-> FALSE, hasProcess |-> FALSE]] :
        kind \in InspectorKinds, step \in {"none"} \cup Range(InspectionSteps)}

InitInspect ==
    /\ inspector \in Inspectors
    /\ processes = {}
    /\ inspected = NotRun
    /\ driftReport = Nil /\ reportText = NotRun
    /\ projectList = <<>> /\ discovery = NotRun /\ connections = <<>> /\ inspection = NotRun
    /\ IdleMatch /\ IdleCompare /\ IdleSchema /\ IdleLabels /\ IdleGKE

\* InspectDatabase up to the end of "Start SSH tunnel if configured": a
\* failed Start returns before the Stop is deferred
StartTunnel ==
    /\ inspector.pc = "start" /\ inspector.kind = "ssh tunnel"
    /\ \E spawned, ready, exited \in BOOLEAN :
          LET start == SSHTunnelStart(inspector.manager, processes, spawned, ready, exited)
          IN  /\ processes' = start.running
              /\ IF start.err
                 THEN /\ inspector' = [inspector EXCEPT !.manager = start.manager,
                                                        !.pc = "returned"]
                      /\ inspected' = [done |-> TRUE, err |-> "failed to start SSH tunnel"]
                 ELSE /\ inspector' = [inspector EXCEPT !.manager = start.manager,
                                                        !.pc = "connect",
                                                        !.deferred = <<"sshTunnel.Stop">>]
                      /\ UNCHANGED inspected
    /\ UNCHANGED <<driftReport, reportText, projectList, discovery, connections, inspection>>
    /\ UNCHANGED <<matchVars, compareVars, schemaVars, labelVars, gkeVars>>

\* InspectDatabase up to the end of "Start proxy if configured"
StartProxy ==
    /\ inspector.pc = "start" /\ inspector.kind = "proxy"
    /\ \E spawned \in BOOLEAN :
          LET start == ProxyStart(inspector.manager, processes, spawned)
          IN  /\ processes' = start.running
              /\ IF start.err
                 THEN /\ inspector' = [inspector EXCEPT !.manager = start.manager,
                                                        !.pc = "returned"]
                      /\ inspected' = [done |-> TRUE, err |-> "failed to start proxy"]
                 ELSE /\ inspector' = [inspector EXCEPT !.manager = start.manager,
                                                        !.pc = "connect",
                                                        !.deferred = <<"proxyManager.Stop">>]
                      /\ UNCHANGED inspected
    /\ UNCHANGED <<driftReport, reportText, projectList, discovery, connections, inspection>>
    /\ UNCHANGED <<matchVars, compareVars, schemaVars, labelVars, gkeVars>>

\* the rest of InspectDatabase: the connection and the queries, up to the
\* first that fails, and then the deferred Stop
Inspect ==
    /\ \/ inspector.pc = "connect"
       \/ inspector.pc = "start" /\ inspector.kind = "direct"
    /\ inspected' = IF inspector.failsAt = "none"
                    THEN [done |-> TRUE, err |-> ""]
                    ELSE [done |-> TRUE, err |-> inspector.failsAt]
    /\ LET stopped == IF inspector.deferred = <<"sshTunnel.Stop">>
                      THEN SSHTunnelStop(inspector.manager, processes)
                      ELSE IF inspector.deferred = <<"proxyManager.Stop">>
                      THEN [manager |-> inspector.manager,
                            running |-> ProxyStop(inspector.manager, processes)]
                      ELSE [manager |-> inspector.manager, running |-> processes]
       IN  /\ processes' = stopped.running
           /\ inspector' = [inspector EXCEPT !.manager = stopped.manager,
                                             !.pc = "returned"]
    /\ UNCHANGED <<driftReport, reportText, projectList, discovery, connections, inspection>>
    /\ UNCHANGED <<matchVars, compareVars, schemaVars, labelVars, gkeVars>>

NextInspect == StartTunnel \/ StartProxy \/ Inspect

SpecInspect == InitInspect /\ [][NextInspect]_vars

----------------------------------------------------------------------------
(* Properties.                                                             *)

\* the label matching the specification asks for: every key of the filter
\* exists in the label mapping with an equal value (a nil mapping has no keys)
LabelsSatisfy(labels, filter) ==
    \A key \in DOMAIN filter : key \in DOMAIN labels.m /\ labels.m[key] = filter[key]

\* the discovered instance with the given key
InstanceOf(key) ==
    allInstances[CHOOSE i \in 1..Len(allInstances) : InstanceKey(allInstances[i]) = key]

\* how often the run evaluated the instance with the given key
TimesEvaluated(key) == Cardinality({j \in 1..Len(evals) : evals[j].key = key})

\* the multi-baseline analysis of Command.Execute has produced its report
MultiBaselineDone == op = "Execute" /\ Len(baselines) > 0 /\ Len(reports) = 1

\* C1: the multi-baseline analysis pairs every resource with at most one
\* baseline, with exactly one when the resource satisfies some baseline's
\* label filter, and no resource appears twice in the combined report.
C1_OnePairingPerResource ==
    MultiBaselineDone =>
        /\ \A i \in 1..Len(allInstances) :
              LET inst == allInstances[i]
              IN  /\ TimesEvaluated(InstanceKey(inst)) <= 1
                  /\ (\E b \in 1..Len(baselines) :
                          LabelsSatisfy(inst.Labels, baselines[b].FilterLabels))
                     => TimesEvaluated(InstanceKey(inst)) = 1
        /\ \A a, b \in 1..Len(reports[1].Instances) :
              a # b => <<reports[1].Instances[a].Project, reports[1].Instances[a].Name>>
                       # <<reports[1].Instances[b].Project, reports[1].Instances[b].Name>>

\* a resource that satisfies the filters of two baselines, paired once
C1_Witness ==
    /\ MultiBaselineDone
    /\ \E i \in 1..Len(allInstances), b1, b2 \in 1..Len(baselines) :
          /\ b1 < b2
          /\ LabelsSatisfy(allInstances[i].Labels, baselines[b1].FilterLabels)
          /\ LabelsSatisfy(allInstances[i].Labels, baselines[b2].FilterLabels)
          /\ Cardinality(DOMAIN baselines[b1].FilterLabels) > 0
          /\ TimesEvaluated(InstanceKey(allInstances[i])) = 1

\* C2: a resource that satisfies the filters of several baselines is
\* evaluated only against the first of them in list order, and never again
\* under a later baseline, whichever entry point runs the analysis.
C2_FirstMatchingBaselineOnly ==
    (op # "none" /\ Len(baselines) > 0) =>
        \A j \in 1..Len(evals) :
            /\ TimesEvaluated(evals[j].key) = 1
            /\ \A b \in 1..(evals[j].baseline - 1) :
                  ~LabelsSatisfy(InstanceOf(evals[j].key).Labels, baselines[b].FilterLabels)

\* the comparison has returned an InstanceDrift
Compared == drift.done /\ drift.out # Panicked

\* C3: a field the baseline leaves unset yields no Drift for that field
\* path, whatever the actual value and whatever else the baseline sets: every
\* Drift of a comparison is about a key the baseline YAML sets.
C3_UnsetFieldNotChecked ==
    (Compared /\ ~baselineY.isNil) =>
        \A i \in 1..Len(drift.out.Drifts) :
            drift.out.Drifts[i].Field[1] \in DOMAIN baselineY.y

\* C4: a baseline in which every field is unset yields an empty Drift list
\* for every actual record.
C4_VacuousBaseline ==
    (Compared /\ ~baselineY.isNil /\ baselineY.y = EmptyMap) =>
        drift.out.Drifts = <<>>

\* C5: matching against an empty filter returns a match for every resource,
\* also for one without a label mapping.
C5_EmptyFilterMatchesAll ==
    (matched.done /\ filterIn = EmptyMap) => matched.v

\* C6: under a non-empty filter a resource is selected if and only if every
\* key of the filter exists in its labels with an equal value; an absent key
\* never matches, also when the filter value is "".
C6_NonEmptyFilterNeedsEveryKey ==
    /\ op = "runSQLAnalysis" =>
          \A b \in 1..Len(reports) :
              Cardinality(DOMAIN baselines[b].FilterLabels) > 0 =>
                  \A i \in 1..Len(allInstances) :
                      (\E j \in 1..Len(evals) :
                          evals[j] = [key |-> InstanceKey(allInstances[i]), baseline |-> b])
                      <=> LabelsSatisfy(allInstances[i].Labels, baselines[b].FilterLabels)
    /\ MultiBaselineDone =>
          \A j \in 1..Len(evals) :
              LabelsSatisfy(InstanceOf(evals[j].key).Labels,
                            baselines[evals[j].baseline].FilterLabels)

\* the validator has returned its findings for a snapshot and a baseline
Validated == ~result.isNil /\ ~result.panicked /\ ~schemaBaseline.isNil

\* the objects of the snapshot's five owned categories, each with the name
\* the validator reports it under and with that name less its schema prefix
SchemaObjects ==
    LET Named(objectType, infos) ==
            {[ObjectType |-> objectType, ObjectName |-> QualifiedName(o),
              BareName |-> <<o.Name>>, Owner |-> o.Owner] : o \in Range(infos)}
        Routines(objectType, infos) ==
            {[ObjectType |-> objectType, ObjectName |-> RoutineName(o),
              BareName |-> <<o.Name, "(", o.Arguments, ")">>, Owner |-> o.Owner] :
                o \in Range(infos)}
    IN  Named("Table", schema.Tables) \cup Named("View", schema.Views)
        \cup Named("Sequence", schema.Sequences)
        \cup Routines("Function", schema.Functions)
        \cup Routines("Procedure", schema.Procedures)

\* the ownership violations reported for one object, in order
ViolationsOf(o) ==
    SelectSeq(result.OwnershipViolations,
              LAMBDA v : v.ObjectType = o.ObjectType /\ v.ObjectName = o.ObjectName)

ExceptionsOf(objectType) == schemaBaseline[OwnerExceptionsField(objectType)]
ExpectedOwnerOf(objectType) == schemaBaseline[ExpectedOwnerField(objectType)]

\* a wrong_owner violation of the allowed-owners whitelist
FromWhitelist(v) == v.ViolationType = "wrong_owner" /\ v.ExpectedOwner[1] = "one of: "

OutsideWhitelist(o) ==
    /\ Len(schemaBaseline.AllowedOwners) > 0
    /\ o.Owner \notin Range(schemaBaseline.AllowedOwners)

HasForbiddenOwner(o) == o.Owner \in Range(schemaBaseline.ForbiddenOwners)

\* the baseline has an exception entry for the object, under its qualified
\* or under its bare name
HasException(o) ==
    /\ ~ExceptionsOf(o.ObjectType).isNil
    /\ {o.ObjectName, o.BareName} \cap DOMAIN ExceptionsOf(o.ObjectType).m # {}

\* the owner that entry expects: the qualified name first, else the bare name
ExceptionOwner(o) ==
    LET m == ExceptionsOf(o.ObjectType).m
    IN  IF o.ObjectName \in DOMAIN m THEN m[o.ObjectName] ELSE m[o.BareName]

\* the validator finds an exception entry for the object: it looks up the
\* qualified name, and for tables and views the bare name as well
ExceptionApplied(o) ==
    /\ ~ExceptionsOf(o.ObjectType).isNil
    /\ \/ o.ObjectName \in DOMAIN ExceptionsOf(o.ObjectType).m
       \/ /\ o.ObjectType \in {"Table", "View"}
          /\ o.BareName \in DOMAIN ExceptionsOf(o.ObjectType).m

C9_ExceptionDecidesOwner ==
    Validated =>
        \A o \in SchemaObjects :
            (~HasForbiddenOwner(o) /\ HasException(o)) =>
                ViolationsOf(o) =
                    IF o.Owner # ExceptionOwner(o)
                    THEN <<OwnershipViolation(o.ObjectType, o.ObjectName, o.Owner,
                                              <<ExceptionOwner(o)>>, "wrong_owner")>>
                    ELSE <<>>

\* the baseline's required list of an object type
RequiredOf(objectType) ==
    CASE objectType = "Table" -> schemaBaseline.RequiredTables
      [] objectType = "View" -> schemaBaseline.RequiredViews
      [] objectType = "Extension" -> schemaBaseline.RequiredExtensions
      [] objectType = "Function" -> schemaBaseline.RequiredFunctions
      [] objectType = "Procedure" -> schemaBaseline.RequiredProcedures

\* the qualified and the bare names of the snapshot's objects of a type
NamesOf(objectType) ==
    LET infos == CASE objectType = "Table" -> schema.Tables
                   [] objectType = "View" -> schema.Views
                   [] objectType = "Extension" -> schema.Extensions
                   [] objectType = "Function" -> schema.Functions
                   [] objectType = "Procedure" -> schema.Procedures
    IN  {QualifiedName(o) : o \in Range(infos)} \cup {<<o.Name>> : o \in Range(infos)}

\* C10: a name in a required list of tables, views, extensions, functions or
\* procedures is reported as a MissingObject of that type if and only if the
\* snapshot has no object of the type with that qualified or bare name.
C10_MissingIffAbsent ==
    Validated =>
        \A objectType \in {"Table", "View", "Extension", "Function", "Procedure"} :
            \A name \in Range(RequiredOf(objectType)) :
                [ObjectType |-> objectType, Name |-> name] \in Range(result.MissingObjects)
                <=> name \notin NamesOf(objectType)

\* the baseline fields each pass reads
RequiredPassFields == {"RequiredTables", "RequiredViews", "RequiredExtensions"}
ForbiddenPassFields == {"ForbiddenTables"}
OwnershipPassFields ==
    {"ExpectedDatabaseOwner", "AllowedOwners", "ForbiddenOwners"}
    \cup {ExpectedOwnerField(c) : c \in Categories}
    \cup {OwnerExceptionsField(c) : c \in Categories}

\* the baseline with every field outside fields left unset
OnlyFields(baseline, fields) ==
    [f \in DOMAIN EmptySchemaBaseline |->
        IF f \in fields THEN baseline[f] ELSE EmptySchemaBaseline[f]]

\* C11: the count, required-object, forbidden-object and ownership passes
\* all run, and the findings of each pass are the findings that pass reports
\* when the baseline sets nothing for the other three passes.
C11_PassesIndependent ==
    Validated =>
        /\ result.CountMismatches =
             ValidateSchemaAgainstBaseline(
                 schema, OnlyFields(schemaBaseline, CountFields)).CountMismatches
        /\ result.MissingObjects =
             ValidateSchemaAgainstBaseline(
                 schema, OnlyFields(schemaBaseline, RequiredPassFields)).MissingObjects
        /\ result.ForbiddenObjects =
             ValidateSchemaAgainstBaseline(
                 schema, OnlyFields(schemaBaseline, ForbiddenPassFields)).ForbiddenObjects
        /\ result.OwnershipViolations =
             ValidateSchemaAgainstBaseline(
                 schema, OnlyFields(schemaBaseline, OwnershipPassFields)).OwnershipViolations

\* C11 witness: one run reports a count mismatch, a missing object, a
\* forbidden object with another name and an ownership violation.
C11_Witness ==
    /\ Validated
    /\ Len(result.CountMismatches) > 0
    /\ Len(result.OwnershipViolations) > 0
    /\ \E i \in 1..Len(result.MissingObjects), j \in 1..Len(result.ForbiddenObjects) :
            result.MissingObjects[i].Name # result.ForbiddenObjects[j].Name

\* C12: under a non-nil baseline HasDrift is true exactly when one of the
\* four finding lists is non-empty.
C12_HasDriftIffFinding ==
    Validated =>
        (result.HasDrift <=>
            \/ Len(result.CountMismatches) > 0
            \/ Len(result.MissingObjects) > 0
            \/ Len(result.ForbiddenObjects) > 0
            \/ Len(result.OwnershipViolations) > 0)

\* C12 witness: a run whose only findings are ownership violations reports
\* drift.
C12_Witness ==
    /\ Validated
    /\ result.HasDrift
    /\ Len(result.OwnershipViolations) > 0
    /\ Len(result.CountMismatches) = 0
    /\ Len(result.MissingObjects) = 0
    /\ Len(result.ForbiddenObjects) = 0

\* C13: with a nil baseline the validation returns HasDrift = false and four
\* empty finding lists, whatever the snapshot.
C13_NilBaselineNoDrift ==
    (~result.isNil /\ schemaBaseline.isNil) =>
        /\ ~result.panicked
        /\ ~result.HasDrift
        /\ result.CountMismatches = <<>>
        /\ result.MissingObjects = <<>>
        /\ result.ForbiddenObjects = <<>>
        /\ result.OwnershipViolations = <<>>

\* C13 witness: a snapshot that holds objects was validated against the nil
\* baseline.
C13_Witness ==
    /\ ~result.isNil
    /\ schemaBaseline.isNil
    /\ ~schema.isNil
    /\ Len(schema.Tables) > 0
    /\ Len(schema.Extensions) > 0

\* the seven counted object types, with the baseline's expected count and
\* the snapshot's list of each
CountedTypes == {"Tables", "Views", "Roles", "Extensions", "Sequences", "Functions",
                 "Procedures"}

ExpectedCount(objectType) ==
    CASE objectType = "Tables" -> schemaBaseline.ExpectedTables
      [] objectType = "Views" -> schemaBaseline.ExpectedViews
      [] objectType = "Roles" -> schemaBaseline.ExpectedRoles
      [] objectType = "Extensions" -> schemaBaseline.ExpectedExtensions
      [] objectType = "Sequences" -> schemaBaseline.ExpectedSequences
      [] objectType = "Functions" -> schemaBaseline.ExpectedFunctions
      [] objectType = "Procedures" -> schemaBaseline.ExpectedProcedures

ActualList(objectType) ==
    CASE objectType = "Tables" -> schema.Tables
      [] objectType = "Views" -> schema.Views
      [] objectType = "Roles" -> schema.Roles
      [] objectType = "Extensions" -> schema.Extensions
      [] objectType = "Sequences" -> schema.Sequences
      [] objectType = "Functions" -> schema.Functions
      [] objectType = "Procedures" -> schema.Procedures

\* C14: for each of the seven object types the result holds exactly one
\* CountMismatch (type, expected, actual length) when the baseline gives an
\* expected count that differs from the length of the snapshot's list, and
\* none when the count is not given or equal.
C14_CountMismatchIffDiffers ==
    Validated =>
        \A objectType \in CountedTypes :
            LET expected == ExpectedCount(objectType)
                actual   == Len(ActualList(objectType))
                found    == SelectSeq(result.CountMismatches,
                                      LAMBDA m : m.ObjectType = objectType)
            IN  IF ~expected.isNil /\ expected.v # actual
                THEN found = <<CountMismatch(objectType, expected.v, actual)>>
                ELSE found = <<>>

\* C14 witness: expected_views = 2 and a snapshot without views give the one
\* CountMismatch {Views, 2, 0}.
C14_Witness ==
    /\ Validated
    /\ schemaBaseline.ExpectedViews = Ptr(2)
    /\ Len(schema.Views) = 0
    /\ result.CountMismatches = <<CountMismatch("Views", 2, 0)>>

\* the Drifts of the comparison whose field path is field, in order
DriftsOf(field) == SelectSeq(drift.out.Drifts, LAMBDA d : d.Field = field)

\* the elements a Drift lists between "[" and "]", after its tag
Listed(tokens) == Range(tokens) \ {"[", "]", "Required:", "Extra:", "Missing:"}

\* The set-valued fields of an instance that the baseline specifies and the
\* instance has: field path, baseline set B, actual set A, and where the
\* two Drifts of the field list the missing and the extra elements.
SetFields ==
    (IF "required_databases" \in DOMAIN baselineY.y
     THEN {[Field |-> <<"required_databases">>,
            B |-> Range(TheBaseline.RequiredDatabases),
            A |-> Range(TheInstance.Databases),
            missingIn |-> "Actual", extraIn |-> "Actual"]}
     ELSE {})
    \cup
    (IF /\ "settings.ip_configuration.authorized_networks" \in DOMAIN baselineY.y
        /\ "settings.ip_configuration" \in DOMAIN actualY
     THEN {[Field |-> <<"settings.ip_configuration.authorized_networks">>,
            B |-> Range(TheBaseline.Settings.IPConfiguration.AuthorizedNetworks),
            A |-> Range(TheInstance.Config.Settings.IPConfiguration.AuthorizedNetworks),
            missingIn |-> "Expected", extraIn |-> "Actual"]}
     ELSE {})

\* C16: for a set-valued field with baseline set B and actual set A, one
\* Drift of severity high lists exactly B \ A when B \ A is not empty, one
\* Drift of severity medium lists exactly A \ B when A \ B is not empty, and
\* the field has no other Drift: two Drifts when both differences are
\* non-empty, none when both are empty.
C16_SetFieldRequiredAndExtra ==
    (Compared /\ ~baselineY.isNil) =>
        \A f \in SetFields :
            LET high   == SelectSeq(DriftsOf(f.Field), LAMBDA d : d.Severity = "high")
                medium == SelectSeq(DriftsOf(f.Field), LAMBDA d : d.Severity = "medium")
            IN  /\ Len(DriftsOf(f.Field)) = Len(high) + Len(medium)
                /\ Len(high) = (IF f.B \ f.A # {} THEN 1 ELSE 0)
                /\ Len(medium) = (IF f.A \ f.B # {} THEN 1 ELSE 0)
                /\ \A i \in 1..Len(high) : Listed(high[i][f.missingIn]) = f.B \ f.A
                /\ \A i \in 1..Len(medium) : Listed(medium[i][f.extraIn]) = f.A \ f.B

\* C16 witness: the baseline's networks lack one of the instance's and hold
\* one the instance lacks, and the field has its two Drifts.
C16_Witness ==
    /\ Compared /\ ~baselineY.isNil
    /\ \E f \in SetFields :
          /\ f.Field = <<"settings.ip_configuration.authorized_networks">>
          /\ f.B \ f.A # {}
          /\ f.A \ f.B # {}
          /\ Len(DriftsOf(f.Field)) = 2

\* C17: every database flag has at most one Drift: medium with actual
\* "not set" for a baseline key the instance lacks, medium for a key with
\* different values, low for a key of the instance the baseline lacks, and
\* none for a key with equal values.
C17_OneDriftPerFlag ==
    (Compared /\ ~baselineY.isNil) =>
        \A key \in FlagKeys :
            LET B == TheBaseline.DatabaseFlags
                A == TheInstance.Config.DatabaseFlags
                found == DriftsOf(FlagField(key))
            IN  CASE key \in DOMAIN B /\ key \notin DOMAIN A ->
                       found = <<Drift(FlagField(key), <<B[key]>>, <<"not set">>, "medium")>>
                  [] key \in DOMAIN B /\ key \in DOMAIN A /\ A[key] # B[key] ->
                       found = <<Drift(FlagField(key), <<B[key]>>, <<A[key]>>, "medium")>>
                  [] key \notin DOMAIN B /\ key \in DOMAIN A ->
                       Len(found) = 1 /\ found[1].Severity = "low"
                                      /\ found[1].Actual = <<A[key]>>
                  [] OTHER -> found = <<>>

\* C17 witness: one comparison in which a flag of the baseline is missing
\* from the instance and a flag of the instance is missing from the
\* baseline.
C17_Witness ==
    /\ Compared /\ ~baselineY.isNil
    /\ \E k1, k2 \in FlagKeys :
          /\ k1 \in DOMAIN TheBaseline.DatabaseFlags
          /\ k1 \notin DOMAIN TheInstance.Config.DatabaseFlags
          /\ k2 \notin DOMAIN TheBaseline.DatabaseFlags
          /\ k2 \in DOMAIN TheInstance.Config.DatabaseFlags
          /\ Len(DriftsOf(FlagField(k1))) = 1
          /\ Len(DriftsOf(FlagField(k2))) = 1

\* C18: when the baseline leaves a sub-record unset or the instance lacks
\* it, the comparison returns and its Drift list holds no field of that
\* sub-record.
C18_SubRecordNeedsBoth ==
    (drift.done /\ ~baselineY.isNil) =>
        \A sub \in MappingKeys :
            (sub \notin DOMAIN baselineY.y \/ sub \notin DOMAIN actualY) =>
                /\ drift.out # Panicked
                /\ \A i \in 1..Len(drift.out.Drifts) :
                       sub \notin ParentsOf(drift.out.Drifts[i].Field[1])

\* C19: the comparison returns a Drift list for every instance and every
\* baseline: a nil baseline, a baseline with unset sub-records, an instance
\* that lacks a sub-record.
C19_ComparatorTotal ==
    drift.done => drift.out # Panicked

\* C20: validating a nil snapshot fails, whatever the baseline; it never
\* returns a result.
C20_NilSnapshotFails ==
    (~result.isNil /\ schema.isNil) => result = Panicked

\* the dot-separated components of a version; cur is the component begun
RECURSIVE SplitDots(_, _)
SplitDots(version, cur) ==
    IF version = <<>> THEN <<cur>>
    ELSE IF Head(version) = "." THEN <<cur>> \o SplitDots(Tail(version), <<>>)
    ELSE SplitDots(Tail(version), Append(cur, Head(version)))

\* the first two dot-separated components of a version
MajorMinor(version) ==
    LET components == SplitDots(version, <<>>)
    IN  IF Len(components) < 2 THEN components ELSE SubSeq(components, 1, 2)

\* C15: when the baseline version is set, the version Drift is emitted
\* exactly when the first two dot-separated components of the actual and
\* of the baseline version differ, whatever follows them and however many
\* digits they have.
C15_VersionDriftIffMajorMinorDiffers ==
    (clusterDrift.done /\ clusterBaseline.MasterVersion # <<>>) =>
        (clusterDrift.Drifts # <<>>
            <=> MajorMinor(clusterActual.MasterVersion)
                    # MajorMinor(clusterBaseline.MasterVersion))

\* the per-instance records of a report whose Drift list is not empty
DriftedRecords(report) ==
    {i \in 1..Len(report.Instances) : Len(report.Instances[i].Drifts) > 0}

\* C24: in every report produced, by the legacy single-baseline analysis, by
\* the multi-baseline analysis and by every pass of runSQLAnalysis, the
\* drifted count is the number of per-instance records with a non-empty
\* Drift list, and it never exceeds the total.
C24_DriftedCountsDriftedRecords ==
    \A r \in 1..Len(reports) :
        /\ reports[r].DriftedInstances = Cardinality(DriftedRecords(reports[r]))
        /\ reports[r].DriftedInstances <= reports[r].TotalInstances

\* C24 witness: a report with a drifted and a clean instance
C24_Witness ==
    \E r \in 1..Len(reports) :
        /\ reports[r].DriftedInstances > 0
        /\ reports[r].DriftedInstances < Len(reports[r].Instances)

\* the discovered instances that satisfy the label filter of no baseline
Unmatched ==
    {i \in 1..Len(allInstances) :
        \A b \in 1..Len(baselines) :
            ~LabelsSatisfy(allInstances[i].Labels, baselines[b].FilterLabels)}

\* the records of the report about the discovered instance i
RecordsOf(report, i) ==
    {j \in 1..Len(report.Instances) :
        /\ report.Instances[j].Project = allInstances[i].Project
        /\ report.Instances[j].Name = allInstances[i].Name}

\* C26: the total of a multi-baseline report is the number of discovered
\* instances, the ones that match no baseline included, and an instance that
\* matches no baseline has no record, hence no Drift, in the report.
C26_TotalCountsUnmatched ==
    MultiBaselineDone =>
        /\ reports[1].TotalInstances = Len(allInstances)
        /\ \A i \in Unmatched : RecordsOf(reports[1], i) = {}

\* C26 witness: a multi-baseline report over an instance that matches no
\* baseline and an instance that drifts from its baseline
C26_Witness ==
    /\ MultiBaselineDone
    /\ Unmatched # {}
    /\ reports[1].DriftedInstances > 0
    /\ Len(reports[1].Instances) < reports[1].TotalInstances

\* C30: in every state of an analyzer's life GetDriftCount is the drifted
\* count of the report produced last (0 before the first report), and
\* GenerateReport fails only before the first report, for the reports of the
\* single-baseline and of the multi-baseline analysis alike.
C30_DriftCountOfLastReport ==
    IF reports = <<>>
    THEN GetDriftCount(lastReport) = 0
    ELSE /\ GetDriftCount(lastReport) = reports[Len(reports)].DriftedInstances
         /\ ~GenerateReport(lastReport).err

Severities == {"critical", "high", "medium", "low"}

\* the field paths whose Drifts come in two kinds
SetFieldPaths == {<<"required_databases">>,
                  <<"settings.ip_configuration.authorized_networks">>}

\* the severity every other field path has
ScalarSeverity(field) ==
    CASE field \in {<<"settings.backup_enabled">>,
                    <<"settings.ip_configuration.require_ssl">>} -> "critical"
      [] field \in {<<"tier">>, <<"settings.availability_type">>,
                    <<"settings.point_in_time_recovery">>} -> "high"
      [] field \in {<<"database_version">>, <<"disk_type">>, <<"disk_size_gb">>,
                    <<"settings.backup_retention_days">>,
                    <<"settings.transaction_log_retention_days">>,
                    <<"settings.replication_type">>,
                    <<"settings.ip_configuration.ipv4_enabled">>} -> "medium"
      [] OTHER -> "low"

\* the Drift reports something the instance has beyond the baseline: the
\* extra elements of a set, or a flag the baseline does not name
ReportsExtra(d) ==
    IF d.Field \in SetFieldPaths THEN Head(d.Actual) = "Extra:"
    ELSE /\ Head(d.Field) = "database_flags"
         /\ d.Field[2] \notin DOMAIN TheBaseline.DatabaseFlags

\* C22 as stated: every Drift has one of the four severities, and two Drifts
\* with the same field path carry the same severity.
C22_SeverityByFieldAlone ==
    Compared =>
        \A i, j \in 1..Len(drift.out.Drifts) :
            /\ drift.out.Drifts[i].Severity \in Severities
            /\ drift.out.Drifts[i].Field = drift.out.Drifts[j].Field
                  => drift.out.Drifts[i].Severity = drift.out.Drifts[j].Severity

\* C22 amended: every Drift has one of the four severities, fixed by its
\* field path and by the kind of difference it reports, never by the values:
\* a set-valued field is high for its missing and medium for its extra
\* elements, a database flag is medium for a key of the baseline and low for
\* an extra key, and every other field has the one severity of its path.
C22_SeverityByFieldAndKind ==
    Compared =>
        \A i \in 1..Len(drift.out.Drifts) :
            LET d == drift.out.Drifts[i]
            IN  /\ d.Severity \in Severities
                /\ d.Severity =
                      IF d.Field \in SetFieldPaths
                      THEN IF ReportsExtra(d) THEN "medium" ELSE "high"
                      ELSE IF Head(d.Field) = "database_flags"
                      THEN IF ReportsExtra(d) THEN "low" ELSE "medium"
                      ELSE ScalarSeverity(d.Field)

\* C22 witness: one comparison reports the missing and the extra databases
\* of an instance under one field path, with two severities
C22_Witness ==
    /\ Compared
    /\ \E i, j \in 1..Len(drift.out.Drifts) :
          /\ drift.out.Drifts[i].Field = <<"required_databases">>
          /\ drift.out.Drifts[j].Field = <<"required_databases">>
          /\ ~ReportsExtra(drift.out.Drifts[i])
          /\ ReportsExtra(drift.out.Drifts[j])

\* C27: the comparison is a function of the instance and the baseline: a
\* second evaluation of the same pair returns the Drift list of the first,
\* with the same entries in the same order.
C27_SameInputsSameDrifts ==
    [][(Compared /\ drift'.out # Panicked) => drift'.out.Drifts = drift.out.Drifts]_vars

\* the number a string of decimal digits denotes
RECURSIVE ParseDigits(_)
ParseDigits(chars) ==
    IF chars = <<>> THEN 0
    ELSE 10 * ParseDigits(SubSeq(chars, 1, Len(chars) - 1))
         + (CHOOSE d \in 0..9 : DigitChars[d + 1] = chars[Len(chars)])

\* the number a signed decimal denotes
ParseSigned(chars) ==
    IF Head(chars) = "-" THEN 0 - ParseDigits(Tail(chars))
    ELSE IF Head(chars) = "+" THEN ParseDigits(Tail(chars))
    ELSE ParseDigits(chars)

\* the lines of the text below the heading "Count Mismatches:"
CountLines ==
    LET lines == validationText.lines
        at == CHOOSE i \in 1..Len(lines) : lines[i] = <<"Count Mismatches:">>
    IN  SubSeq(lines, at + 1, at + Len(result.CountMismatches))

\* C28: the text reports every count mismatch on a line of its own, and the
\* diff on that line is the actual count less the expected count, printed
\* with its sign: "+" when more objects are found than expected, "-" when
\* fewer.
C28_DiffIsActualMinusExpected ==
    (validationText.done /\ Len(result.CountMismatches) > 0) =>
        \A i \in 1..Len(result.CountMismatches) :
            LET line   == CountLines[i]
                actual == Len(ActualList(line[2]))
                expect == ExpectedCount(line[2]).v
            IN  /\ line[2] = result.CountMismatches[i].ObjectType
                /\ ParseSigned(line[4]) = expect
                /\ ParseSigned(line[6]) = actual
                /\ ParseSigned(line[8]) = actual - expect
                /\ Head(line[8]) = IF actual > expect THEN "+" ELSE "-"

\* C28 witness: more tables than expected
C28_Witness ==
    /\ validationText.done
    /\ \E i \in 1..Len(result.CountMismatches) :
          /\ result.CountMismatches[i].Actual > result.CountMismatches[i].Expected
          /\ CountLines[i][8] = <<"+", "2">>

\* the rate line of the printed report, as the number of tenths of a
\* percent it shows
PrintedRate == reportText.lines[3][2]

\* C23: the compliance rate of a report is (total - drifted) / total * 100
\* when the total is above 0, and for a total of 0 the computation is
\* guarded: no rate that is not a number is ever produced.
C23_RateGuarded ==
    reportText.done =>
        /\ PrintedRate # <<"N", "a", "N">>
        /\ driftReport.TotalInstances > 0 =>
              LET total  == driftReport.TotalInstances
                  kept   == total - driftReport.DriftedInstances
                  tenths == ParseDigits(SelectSeq(PrintedRate, LAMBDA c : c # "."))
              IN  /\ 2 * (tenths * total - 1000 * kept) <= total
                  /\ 2 * (1000 * kept - tenths * total) <= total

\* all Drifts of the report, resource after resource
RECURSIVE DriftsFrom(_, _)
DriftsFrom(report, i) ==
    IF i > Len(report.Instances) THEN <<>>
    ELSE report.Instances[i].Drifts \o DriftsFrom(report, i + 1)

\* C25: each of the four severity totals is the number of Drifts of that
\* severity over all resources of the report, and the four totals add up to
\* the number of Drifts in the report.
C25_SeverityTotalsPartition ==
    reportText.done =>
        LET all == DriftsFrom(driftReport, 1)
            Of(severity) == Len(SelectSeq(all, LAMBDA d : d.Severity = severity))
            counts == reportText.counts
        IN  /\ counts.critical = Of("critical")
            /\ counts.high = Of("high")
            /\ counts.medium = Of("medium")
            /\ counts.low = Of("low")
            /\ counts.critical + counts.high + counts.medium + counts.low = Len(all)

\* C25 witness: a report of two resources with Drifts of all four
\* severities
C25_Witness ==
    /\ reportText.done
    /\ Len(driftReport.Instances) = 2
    /\ reportText.counts.critical > 0 /\ reportText.counts.high > 0
    /\ reportText.counts.medium > 0 /\ reportText.counts.low > 0

\* C21: a failure on one resource of a batch does not keep the others from
\* being processed: the discovery returns the instances of every project
\* it could list, and the inspection visits every connection and produces
\* the output of every connection that could be inspected (once the schema
\* cache, which belongs to no connection, could be opened).
C21_FailureIsolated ==
    /\ discovery.done =>
          \A p \in 1..Len(projectList) :
              ~projectList[p].listFails =>
                  \A i \in 1..Len(projectList[p].items) :
                      \E j \in 1..Len(discovery.instances) :
                          /\ discovery.instances[j].Project = projectList[p].name
                          /\ discovery.instances[j].Name = projectList[p].items[i].name
    /\ (inspection.done /\ ~inspection.err) =>
          /\ Len(inspection.visited) = Len(connections)
          /\ \A c \in 1..Len(connections) :
                connections[c].fate = "ok" =>
                    \E j \in 1..Len(inspection.outputs) :
                        inspection.outputs[j] = connections[c].name

\* C29: when InspectDatabase has returned, with a schema or with any error,
\* no process it spawned for the SSH tunnel or the Cloud SQL proxy is still
\* running.
C29_NoOrphanedProcess ==
    inspected.done => processes = {}

====
